---------------------------- MODULE Spec2Model ----------------------------
(***************************************************************************)
(* A model of the neonano text viewport: Line (component/line.rs) and      *)
(* Portal (component/portal.rs), hosted by Content (component/screen.rs).  *)
(*                                                                         *)
(* Text is a sequence of characters; a character is a one-letter string.   *)
(* Byte offsets are kept apart from character counts: EAcute takes two bytes.  *)
(* A fallible Rust function is an operator whose result carries res:       *)
(* "Ok", "Err" (an anyhow error returned through ?) or "Panic".            *)
(***************************************************************************)
EXTENDS Integers, Sequences, FiniteSets, TLC

VARIABLES
    content,    \* which Content variant the window holds: "FilePicker" | "Portal"
    portal,     \* the Portal's fields, plus res: the outcome of the last update
    file,       \* the lines of the file as Portal::open read them
    build,      \* "debug" (overflow checks on) | "release" (wrapping arithmetic)
    edits,      \* the number of text-changing events handled since the file was opened
    trail,      \* the keys handled since the file was opened (recorded by SpecScenario)
    before,     \* SpecEdit: the Portal as the recorded event found it
    subject,    \* SpecLine: the content of the Line a method is called on
    arg,        \* SpecLine: the RawIndex the method is given
    out,        \* SpecLine: the last call, [op |-> its name, val |-> what it returned]
    picker,     \* the FilePicker's entries, selected and history
    ret,        \* what the FilePicker's last update, Message::Open included, returned
    list,       \* SpecList: a List (utils/list.rs)
    slotlist,   \* SpecSlot: a SlotList (utils/slotlist.rs)
    deque,      \* SpecList, SpecSlot: the elements pushed and not popped, front to back
    got,        \* SpecList, SpecSlot: the last operation and what it returned
    thread,     \* SpecRun: the input thread (input.rs)
    channel,    \* SpecRun: the events sent by the input thread and not yet received
    input,      \* SpecRun: the Input the run loop reads from
    core        \* SpecRun: the run loop (core.rs)

lineVars == <<subject, arg, out>>
pickVars == <<picker, ret>>
listVars == <<list, slotlist, deque, got>>
coreVars == <<thread, channel, input, core>>
vars ==
    <<content, portal, file, build, edits, trail, before, subject, arg, out, picker, ret,
      list, slotlist, deque, got, thread, channel, input, core>>

-----------------------------------------------------------------------------
(* Bounds of the model *)

MaxLines == 3          \* Spec opens files of 0..MaxLines lines
MaxHeight == 3         \* Spec opens viewports of height 1..MaxHeight
MaxEdits == 1          \* Spec handles at most MaxEdits text-changing events per file
NavLines == 10         \* SpecNav and SpecScenario open files of 0..NavLines lines
NavHeight == 5         \* SpecNav and SpecScenario open viewports of height 1..NavHeight
TrailLen == 4          \* SpecScenario handles at most TrailLen keys per file
MaxStray == 1          \* events are followed while active < len(lines) + MaxStray
MaxDisplay == 9        \* and while the cursor's display column is at most MaxDisplay
EditLines == 6         \* SpecEdit opens files of 0..EditLines lines
EditHeight == 5        \* SpecEdit opens viewports of height 1..EditHeight
GutterLines == 999     \* SpecGutter opens a file of GutterLines empty lines
GutterHeight == 3      \* in a viewport of GutterHeight rows
GutterEdits == 4       \* and handles at most GutterEdits events that add a line
MaxLineLen == 3        \* SpecLine calls Line's methods on lines of 0..MaxLineLen characters
MaxColumn == 9         \* and resolves display columns 0..MaxColumn
MaxBeyond == 2         \* and holds indices up to MaxBeyond bytes past a line's end
MaxListLen == 3        \* SpecList, SpecSlot: lists of at most MaxListLen elements
MaxEvents == 4         \* SpecRun, SpecInput: the input thread reads at most MaxEvents events
MaxReads == 3          \* SpecInput: Input::read is called at most MaxReads times
PickHeight == 2        \* SpecOpen opens the picked file in PickHeight rows
MaxWander == 2         \* and follows selected up to MaxWander past the entries

-----------------------------------------------------------------------------
(* Characters *)

Tab == "\t"
NL == "\n"
EAcute == "e9"         \* the character U+00E9, two bytes in UTF-8

TAB_SIZE == 4
SCROLL_GRACE == 3
SCROLL_DIST == 5

\* usize arithmetic wraps at 2^64 in a release build; the model wraps at a
\* modulus far above every length and offset it can reach.
UsizeModulus == 2^30

OverflowChecks == build = "debug"

char_width(c) == IF c = Tab THEN TAB_SIZE ELSE 1

len_utf8(c) == IF c = EAcute THEN 2 ELSE 1

is_alphanumeric(c) == c \notin {Tab, " ", NL}

Min(a, b) == IF a < b THEN a ELSE b
Max(a, b) == IF a < b THEN b ELSE a

RECURSIVE ByteLen(_)
ByteLen(s) == IF s = <<>> THEN 0 ELSE len_utf8(Head(s)) + ByteLen(Tail(s))

RECURSIVE DisplayWidth(_)
DisplayWidth(s) == IF s = <<>> THEN 0 ELSE char_width(Head(s)) + DisplayWidth(Tail(s))

Take(s, k) == SubSeq(s, 1, k)
Drop(s, k) == SubSeq(s, k + 1, Len(s))

\* let v = ..; F(v): the value v, computed once, handed to what follows
With(v, F(_)) == F(v)

\* str::is_char_boundary: b is 0, the byte length, or the first byte of a character
IsCharBoundary(s, b) == \E k \in 0..Len(s) : ByteLen(Take(s, k)) = b

\* the number of characters in front of byte offset b (b on a boundary)
CharsBefore(s, b) == CHOOSE k \in 0..Len(s) : ByteLen(Take(s, k)) = b

-----------------------------------------------------------------------------
(* Index and RawIndex (line.rs) *)

Index(d, b) == [display |-> d, byte |-> b]
IndexDefault == Index(0, 0)

Valid(i) == [tag |-> "Valid", display |-> i.display, byte |-> i.byte]
Invalid(d) == [tag |-> "Invalid", display |-> d]
AsIndex(raw) == Index(raw.display, raw.byte)

index_front == Valid(IndexDefault)

at_front(raw) == raw.display = 0

invalidate_keeps_valid(raw) == raw

invalidate(raw) == IF raw.tag = "Valid" THEN Invalid(raw.display) ELSE raw

None == [tag |-> "None"]
Some(v) == [tag |-> "Some", val |-> v]

Ok(v) == [res |-> "Ok", val |-> v]
Err == [res |-> "Err"]
Panic == [res |-> "Panic"]

\* a usize subtraction: a panic with overflow checks, a wrapped value without
USub(a, b) ==
    IF a >= b THEN Ok(a - b)
    ELSE IF OverflowChecks THEN Panic
    ELSE Ok((a - b) + UsizeModulus)

UAdd(a, b) == (a + b) % UsizeModulus


-----------------------------------------------------------------------------
(* Line (line.rs): a line is its content, a sequence of characters *)

\* Line::at_back
at_back(line, index) == index.byte = ByteLen(line)

\* The items of Line::indices_from: one Index per character from from.byte on,
\* the first being `from` itself.  Err when from.byte is no character boundary.
indices_from(line, from) ==
    IF ~IsCharBoundary(line, from.byte) THEN Err
    ELSE LET k == CharsBefore(line, from.byte)
             rest == Drop(line, k)
         IN  Ok([i \in 1..Len(rest) |->
                    Index(UAdd(from.display, DisplayWidth(Take(rest, i - 1))),
                          from.byte + ByteLen(Take(rest, i - 1)))])

\* rindices_from taking one display column off for every character, a tab too
rindices_from_narrow_tabs(line, from) ==
    IF ~IsCharBoundary(line, from.byte) THEN Err
    ELSE LET k == CharsBefore(line, from.byte)
             back(i) == SubSeq(line, k - i + 1, k)    \* the i characters before from
             disp(i) == from.display - Len(back(i))
         IN  [res |-> "Ok",
              val |-> [i \in 1..k |->
                         Index(IF disp(i - 1) >= 0 THEN disp(i - 1)
                                                    ELSE disp(i - 1) + UsizeModulus,
                               from.byte - ByteLen(back(i - 1)))],
              under |-> Cardinality({i \in 1..k : \A j \in 1..i : disp(j) >= 0})]

\* The items of Line::rindices_from, walking back from from.byte: item i is the
\* scan state before the closure's i-th decrement; `under` is the number of
\* items the scan can yield before a decrement of display underflows
\* (the i-th call of the closure performs the i-th decrement before it returns
\* item i, so item i is only yielded if decrements 1..i did not panic).
rindices_from(line, from) ==
    IF ~IsCharBoundary(line, from.byte) THEN Err
    ELSE LET k == CharsBefore(line, from.byte)
             back(i) == SubSeq(line, k - i + 1, k)    \* the i characters before from
             disp(i) == from.display - DisplayWidth(back(i))
         IN  [res |-> "Ok",
              val |-> [i \in 1..k |->
                         Index(IF disp(i - 1) >= 0 THEN disp(i - 1)
                                                    ELSE disp(i - 1) + UsizeModulus,
                               from.byte - ByteLen(back(i - 1)))],
              under |-> Cardinality({i \in 1..k : \A j \in 1..i : disp(j) >= 0})]

\* Line::indices
indices(line) == indices_from(line, IndexDefault).val

\* Line::get
get(line, index) ==
    IF ~IsCharBoundary(line, index.byte) THEN Err
    ELSE LET k == CharsBefore(line, index.byte)
         IN  IF k < Len(line) THEN Ok(line[k + 1]) ELSE Err

\* correct_index stopping only at an index past the target column
correct_index_strict(line, raw) ==
    IF raw.tag = "Valid" THEN AsIndex(raw)
    ELSE With(indices(line), LAMBDA ixs :
         LET hit == {i \in 1..Len(ixs) : ixs[i].display > raw.display}
         IN  IF hit # {} THEN ixs[CHOOSE i \in hit : \A j \in hit : i <= j]
             ELSE IF Len(ixs) = 0 THEN IndexDefault
             ELSE Index(ixs[Len(ixs)].display + 1, ixs[Len(ixs)].byte))

\* correct_index resolving a Valid index by its display column as well, and
\* stopping only at an index past that column
correct_index_refolds(line, raw) ==
    With(indices(line), LAMBDA ixs :
         LET hit == {i \in 1..Len(ixs) : ixs[i].display > raw.display}
         IN  IF hit # {} THEN ixs[CHOOSE i \in hit : \A j \in hit : i <= j]
             ELSE IF Len(ixs) = 0 THEN IndexDefault
             ELSE Index(ixs[Len(ixs)].display + 1, ixs[Len(ixs)].byte))

\* Line::correct_index
correct_index(line, raw) ==
    IF raw.tag = "Valid" THEN AsIndex(raw)
    ELSE With(indices(line), LAMBDA ixs :
         LET hit == {i \in 1..Len(ixs) : ixs[i].display >= raw.display}
         IN  IF hit # {} THEN ixs[CHOOSE i \in hit : \A j \in hit : i <= j]
             ELSE IF Len(ixs) = 0 THEN IndexDefault
             ELSE Index(ixs[Len(ixs)].display + 1, ixs[Len(ixs)].byte))

\* Line::index_forward
index_forward(line, index) ==
    With(indices_from(line, index), LAMBDA it :
        IF it.res # "Ok" THEN it
        ELSE IF Len(it.val) = 0 THEN Ok(None) ELSE Ok(Some(it.val[1])))

\* Line::index_backward
index_backward(line, index) ==
    With(rindices_from(line, index), LAMBDA it :
        IF it.res # "Ok" THEN Err
        ELSE IF Len(it.val) = 0 THEN Ok(None)
        ELSE IF OverflowChecks /\ it.under < 1 THEN Panic
        ELSE Ok(Some(it.val[1])))

\* Line::index_back
index_back(line, raw) ==
    IF raw.tag = "Valid"
    THEN With(indices_from(line, AsIndex(raw)), LAMBDA it :
             IF it.res # "Ok" THEN it
             ELSE IF Len(it.val) = 0 THEN Ok(AsIndex(raw))
             ELSE Ok(it.val[Len(it.val)]))
    ELSE With(indices(line), LAMBDA ixs :
             IF Len(ixs) = 0 THEN Ok(IndexDefault) ELSE Ok(ixs[Len(ixs)]))

\* Line::index_forward_word
index_forward_word(line, index) ==
    IF at_back(line, index) THEN Ok(None)
    ELSE With(indices_from(line, index), LAMBDA it :
         IF it.res # "Ok" THEN it
         ELSE LET found == {i \in 1..Len(it.val) :
                               ~is_alphanumeric(get(line, it.val[i]).val)}
              IN  IF found # {}
                  THEN Ok(Some(it.val[CHOOSE i \in found : \A j \in found : i <= j]))
                  ELSE With(index_back(line, Valid(index)), LAMBDA back :
                           IF back.res # "Ok" THEN back ELSE Ok(Some(back.val))))

\* Line::index_backward_word
index_backward_word(line, index) ==
    IF at_front(index) THEN Ok(None)
    ELSE With(rindices_from(line, index), LAMBDA it :
         IF it.res # "Ok" THEN Err
         ELSE LET n == Len(it.val)
                  \* the first item find_nonalphanum stops at: a character that
                  \* is not alphanumeric, or no character at all (get fails)
                  stop == {i \in 1..n : get(line, it.val[i]).res # "Ok"
                                        \/ ~is_alphanumeric(get(line, it.val[i]).val)}
                  first == IF stop = {} THEN n + 1
                           ELSE CHOOSE i \in stop : \A j \in stop : i <= j
                  \* closure calls made: one per item up to the stop, n if none
                  calls == Min(first, n)
              IN  IF OverflowChecks /\ it.under < calls THEN Panic
                  ELSE IF first = n + 1 THEN Ok(Some(IndexDefault))
                  ELSE IF get(line, it.val[first]).res # "Ok" THEN Err
                  ELSE Ok(Some(it.val[first])))

\* Line::split_at: String::split_off panics off a character boundary
split_at(line, index) ==
    IF ~IsCharBoundary(line, index.byte) THEN Panic
    ELSE LET k == CharsBefore(line, index.byte)
         IN  [res |-> "Ok", line |-> Take(line, k), val |-> Drop(line, k)]

\* append putting the other line's content in front
append_in_front(line, other) == other \o line

\* Line::append
append(line, other) == line \o other

\* Line::prepend
prepend(line, other) == other \o line

\* Line::clear
clear(line) == <<>>

\* Line::insert: String::insert panics off a character boundary
insert(line, index, c) ==
    IF ~IsCharBoundary(line, index.byte) THEN Panic
    ELSE LET k == CharsBefore(line, index.byte)
         IN  Ok(Take(line, k) \o <<c>> \o Drop(line, k))

\* Line::remove: String::remove panics at the end and off a character boundary
remove(line, index) ==
    IF ~IsCharBoundary(line, index.byte) \/ index.byte >= ByteLen(line) THEN Panic
    ELSE LET k == CharsBefore(line, index.byte)
         IN  Ok(Take(line, k) \o Drop(line, k + 1))

\* Line::remove_range: String::drain(from.byte..to.byte)
remove_range(line, from, to) ==
    IF \/ from.byte > to.byte
       \/ ~IsCharBoundary(line, from.byte)
       \/ ~IsCharBoundary(line, to.byte)
    THEN Panic
    ELSE Ok(Take(line, CharsBefore(line, from.byte)) \o Drop(line, CharsBefore(line, to.byte)))

-----------------------------------------------------------------------------
(* Portal (portal.rs).  p is the record of the Portal's fields; active is     *)
(* zero-based as in the code, so the active line is p.lines[p.active + 1].    *)

Fail(p, r) == [p EXCEPT !.res = r]

\* the pair (self after the call, the call's return value)
Ret(p, v) == [p |-> p, ret |-> v]

\* decimal digits of n: format!("{}", n).len()
RECURSIVE Digits(_)
Digits(n) == IF n < 10 THEN 1 ELSE 1 + Digits(n \div 10)

\* lines.iter().rev().flat_map(|line| ["\n", line]).collect()
RECURSIVE JoinRev(_)
JoinRev(ls) ==
    IF ls = <<>> THEN <<>>
    ELSE IF Len(ls) = 1 THEN <<NL>> \o ls[1]
    ELSE JoinRev(Drop(ls, Len(ls) \div 2)) \o JoinRev(Take(ls, Len(ls) \div 2))

\* Portal::open that loses the first line under the window
Portal_open_skips_line(text, height) ==
    [lines |-> Take(text, Min(height, Len(text))),
     above |-> <<>>,
     below |-> IF height + 1 < Len(text) THEN JoinRev(Drop(text, height + 1)) ELSE <<>>,
     active |-> 0,
     index |-> index_front,
     offset |-> 0,
     line_num_width |-> Max(3, Digits(Len(text))),
     height |-> height,
     recycle |-> <<>>,
     res |-> "Ok"]

\* Portal::open
Portal_open(text, height) ==
    [lines |-> Take(text, Min(height, Len(text))),
     above |-> <<>>,
     below |-> IF height < Len(text) THEN JoinRev(Drop(text, height)) ELSE <<>>,
     active |-> 0,
     index |-> index_front,
     offset |-> 0,
     line_num_width |-> Max(3, Digits(Len(text))),
     height |-> height,
     recycle |-> <<>>,
     res |-> "Ok"]

\* Portal::current_line / current_line_mut
current_line(p) ==
    IF p.active < Len(p.lines) THEN Ok(p.lines[p.active + 1]) ELSE Err

\* *self.current_line_mut()? = line
set_current_line(p, line) == [p EXCEPT !.lines[p.active + 1] = line]

\* Portal::at_top
at_top(p) == p.active = 0

\* at_bottom comparing active with the number of rows
at_bottom_past_last(p) ==
    LET last == USub(Len(p.lines), 1)
    IN  IF last.res # "Ok" THEN last ELSE Ok(p.active = Len(p.lines))

\* Portal::at_bottom: the result of self.lines.len() - 1, then the comparison
at_bottom(p) ==
    LET last == USub(Len(p.lines), 1)
    IN  IF last.res # "Ok" THEN last ELSE Ok(p.active = last.val)

\* Portal::insert_below
insert_below(p, line) ==
    [p EXCEPT !.below = p.below \o <<NL>> \o line,
              !.recycle = Append(p.recycle, line)]

\* insert_above putting the line in front of the lines already above
insert_above_in_front(p, line) ==
    [p EXCEPT !.above = <<NL>> \o line \o p.above,
              !.recycle = Append(p.recycle, line)]

\* Portal::insert_above
insert_above(p, line) ==
    [p EXCEPT !.above = p.above \o <<NL>> \o line,
              !.recycle = Append(p.recycle, line)]

\* str::rfind('\n'): the one-based place of the last newline, 0 when there is none
RECURSIVE rfind_from(_, _)
rfind_from(s, i) ==
    IF i = 0 THEN 0 ELSE IF s[i] = NL THEN i ELSE rfind_from(s, i - 1)

rfind(s) == rfind_from(s, Len(s))

\* str::trim_start_matches('\n')
RECURSIVE trim_start_matches(_)
trim_start_matches(s) ==
    IF s # <<>> /\ Head(s) = NL THEN trim_start_matches(Tail(s)) ELSE s

\* self.recycle.pop().unwrap_or_default()
recycle_pop(p) ==
    IF p.recycle = <<>> THEN [line |-> <<>>, recycle |-> <<>>]
    ELSE [line |-> p.recycle[Len(p.recycle)],
          recycle |-> Take(p.recycle, Len(p.recycle) - 1)]

\* take_from_below that appends to the recycled line as it is
take_from_below_keeps_text(p) ==
    IF p.below = <<>> THEN Ret(p, None)
    ELSE LET popped == recycle_pop(p)
             pos == rfind(p.below)
         IN  IF pos = 0 THEN Ret(Fail([p EXCEPT !.recycle = popped.recycle], "Err"), None)
             ELSE Ret([p EXCEPT !.recycle = popped.recycle,
                                !.below = Take(p.below, pos - 1)],
                      Some(append(popped.line,
                                  trim_start_matches(Drop(p.below, pos - 1)))))

\* Portal::take_from_below
take_from_below(p) ==
    IF p.below = <<>> THEN Ret(p, None)
    ELSE LET popped == recycle_pop(p)
             pos == rfind(p.below)
         IN  IF pos = 0 THEN Ret(Fail([p EXCEPT !.recycle = popped.recycle], "Err"), None)
             ELSE Ret([p EXCEPT !.recycle = popped.recycle,
                                !.below = Take(p.below, pos - 1)],
                      Some(append(clear(popped.line),
                                  trim_start_matches(Drop(p.below, pos - 1)))))

\* Portal::take_from_above
take_from_above(p) ==
    IF p.above = <<>> THEN Ret(p, None)
    ELSE LET popped == recycle_pop(p)
             pos == rfind(p.above)
         IN  IF pos = 0 THEN Ret(Fail([p EXCEPT !.recycle = popped.recycle], "Err"), None)
             ELSE Ret([p EXCEPT !.recycle = popped.recycle,
                                !.above = Take(p.above, pos - 1)],
                      Some(append(clear(popped.line),
                                  trim_start_matches(Drop(p.above, pos - 1)))))

\* the match on self.offset without its first arm
new_line_num_width_from_10000(offset) ==
    CASE offset = 10000 -> 5
      [] offset = 100000 -> 6
      [] offset = 1000000 -> 7
      [] offset = 10000000 -> 8
      [] OTHER -> 0

\* the match on self.offset in Portal::scroll_down
new_line_num_width(offset) ==
    CASE offset = 1000 -> 4
      [] offset = 10000 -> 5
      [] offset = 100000 -> 6
      [] offset = 1000000 -> 7
      [] offset = 10000000 -> 8
      [] OTHER -> 0

\* scroll_down that leaves offset as it was
scroll_down_keeps_offset(p) ==
    With(take_from_below(p), LAMBDA t :
        IF t.p.res # "Ok" THEN Ret(t.p, FALSE)
        ELSE IF t.ret = None THEN Ret(t.p, FALSE)
        ELSE LET pushed == Append(t.p.lines, t.ret.val)
             IN  Ret(insert_above([t.p EXCEPT !.lines = Tail(pushed)], Head(pushed)), TRUE))

\* Portal::scroll_down
scroll_down(p) ==
    With(take_from_below(p), LAMBDA t :
        IF t.p.res # "Ok" THEN Ret(t.p, FALSE)
        ELSE IF t.ret = None THEN Ret(t.p, FALSE)
        ELSE LET pushed == Append(t.p.lines, t.ret.val)
                 q == insert_above([t.p EXCEPT !.lines = Tail(pushed)], Head(pushed))
                 offset == UAdd(q.offset, 1)
             IN  Ret([q EXCEPT !.offset = offset,
                               !.line_num_width =
                                   Max(q.line_num_width, new_line_num_width(offset))],
                     TRUE))

\* the Ordering::Greater arm of Portal::fix_lines: n = len - height
RECURSIVE fix_lines_greater(_, _)
fix_lines_greater(p, n) ==
    IF n = 0 THEN p
    ELSE fix_lines_greater(
             insert_below([p EXCEPT !.lines = Take(p.lines, Len(p.lines) - 1)],
                          p.lines[Len(p.lines)]),
             n - 1)

\* the Ordering::Less arm of Portal::fix_lines: n = height - len
RECURSIVE fix_lines_less(_, _)
fix_lines_less(p, n) ==
    IF n = 0 THEN p
    ELSE With(take_from_below(p), LAMBDA t :
         IF t.p.res # "Ok" THEN t.p
         ELSE IF t.ret = None THEN fix_lines_less(t.p, n - 1)
         ELSE fix_lines_less([t.p EXCEPT !.lines = Append(t.p.lines, t.ret.val)], n - 1))

\* fix_lines that trims a long window and never refills a short one
fix_lines_trims_only(p) ==
    LET len == Len(p.lines)
    IN  IF len > p.height THEN fix_lines_greater(p, len - p.height) ELSE p

\* Portal::fix_lines
fix_lines(p) ==
    LET len == Len(p.lines)
    IN  IF len > p.height THEN fix_lines_greater(p, len - p.height)
        ELSE IF len < p.height THEN fix_lines_less(p, p.height - len)
        ELSE p

\* scroll_up that leaves offset as it was
scroll_up_keeps_offset(p) ==
    With(take_from_above(p), LAMBDA t :
        IF t.p.res # "Ok" THEN Ret(t.p, FALSE)
        ELSE IF t.ret = None THEN Ret(t.p, FALSE)
        ELSE With(fix_lines([t.p EXCEPT !.lines = <<t.ret.val>> \o t.p.lines]), LAMBDA q :
                 IF q.res # "Ok" THEN Ret(q, FALSE) ELSE Ret(q, TRUE)))

\* Portal::scroll_up
scroll_up(p) ==
    With(take_from_above(p), LAMBDA t :
        IF t.p.res # "Ok" THEN Ret(t.p, FALSE)
        ELSE IF t.ret = None THEN Ret(t.p, FALSE)
        ELSE With(fix_lines([t.p EXCEPT !.lines = <<t.ret.val>> \o t.p.lines]), LAMBDA q :
                 LET offset == USub(q.offset, 1)
                 IN  IF q.res # "Ok" THEN Ret(q, FALSE)
                     ELSE IF offset.res # "Ok" THEN Ret(Fail(q, offset.res), FALSE)
                     ELSE Ret([q EXCEPT !.offset = offset.val], TRUE)))

\* self.active += 1 (or -= 1); self.index.invalidate(); Ok(true)
moved(p, active) ==
    Ret([p EXCEPT !.active = active, !.index = invalidate(p.index)], TRUE)

\* cursor_down that moves freely down to the row SCROLL_GRACE - 1 above the
\* last one
cursor_down_late(p) ==
    LET limit == USub(Len(p.lines), SCROLL_GRACE - 1)
    IN  IF limit.res # "Ok" THEN Ret(Fail(p, limit.res), FALSE)
        ELSE IF p.active < limit.val THEN moved(p, p.active + 1)
        ELSE With(scroll_down(p), LAMBDA s :
             IF s.p.res # "Ok" THEN s
             ELSE IF s.ret THEN moved(s.p, s.p.active)
             ELSE LET last == USub(Len(s.p.lines), 1)
                  IN  IF last.res # "Ok" THEN Ret(Fail(s.p, last.res), FALSE)
                      ELSE IF s.p.active < last.val THEN moved(s.p, s.p.active + 1)
                      ELSE Ret(s.p, FALSE))

\* Portal::cursor_down
cursor_down(p) ==
    LET limit == USub(Len(p.lines), SCROLL_GRACE)
    IN  IF limit.res # "Ok" THEN Ret(Fail(p, limit.res), FALSE)
        ELSE IF p.active < limit.val THEN moved(p, p.active + 1)
        ELSE With(scroll_down(p), LAMBDA s :
             IF s.p.res # "Ok" THEN s
             ELSE IF s.ret THEN moved(s.p, s.p.active)
             ELSE LET last == USub(Len(s.p.lines), 1)
                  IN  IF last.res # "Ok" THEN Ret(Fail(s.p, last.res), FALSE)
                      ELSE IF s.p.active < last.val THEN moved(s.p, s.p.active + 1)
                      ELSE Ret(s.p, FALSE))

\* Portal::cursor_up
cursor_up(p) ==
    IF p.active > SCROLL_GRACE THEN moved(p, p.active - 1)
    ELSE With(scroll_up(p), LAMBDA s :
         IF s.p.res # "Ok" THEN s
         ELSE IF s.ret THEN moved(s.p, s.p.active)
         ELSE IF s.p.active > 0 THEN moved(s.p, s.p.active - 1)
         ELSE Ret(s.p, FALSE))

\* Portal::jump_top
RECURSIVE jump_top(_)
jump_top(p) ==
    With(cursor_up(p), LAMBDA r :
        IF r.p.res = "Ok" /\ r.ret THEN jump_top(r.p) ELSE r.p)

\* Portal::jump_bottom.  Without overflow checks and with fewer than
\* SCROLL_GRACE lines, len - SCROLL_GRACE wraps to a huge limit, cursor_down
\* answers true some 2^64 times and the loop does not end: res = "Hang".
RECURSIVE jump_bottom(_)
jump_bottom(p) ==
    IF ~OverflowChecks /\ Len(p.lines) < SCROLL_GRACE THEN Fail(p, "Hang")
    ELSE With(cursor_down(p), LAMBDA r :
         IF r.p.res = "Ok" /\ r.ret THEN jump_bottom(r.p) ELSE r.p)

-----------------------------------------------------------------------------
(* Portal::update, one operator per match arm *)

\* self.index = self.current_line()?.index_back(self.index)?.into()
index_to_back(p) ==
    LET line == current_line(p)
    IN  IF line.res # "Ok" THEN Fail(p, line.res)
        ELSE With(index_back(line.val, p.index), LAMBDA back :
                 IF back.res # "Ok" THEN Fail(p, back.res)
                 ELSE [p EXCEPT !.index = Valid(back.val)])

\* Portal::type_char
type_char(p, c) ==
    LET line == current_line(p)
    IN  IF line.res # "Ok" THEN Fail(p, line.res)
        ELSE With(correct_index(line.val, p.index), LAMBDA corrected :
             LET typed == insert(line.val, corrected, c)
             IN  IF typed.res # "Ok" THEN Fail(p, typed.res)
                 ELSE With(index_forward(typed.val, corrected), LAMBDA fwd :
                      LET q == set_current_line(p, typed.val)
                      IN  IF fwd.res # "Ok" THEN Fail(q, fwd.res)
                          ELSE [q EXCEPT !.index =
                                   Valid(IF fwd.val = None THEN corrected ELSE fwd.val.val)]))

\* pressed!(Key::Up)
update_up(p) ==
    With(cursor_up(p), LAMBDA r :
        IF r.p.res # "Ok" \/ r.ret THEN r.p ELSE [r.p EXCEPT !.index = index_front])

\* pressed!(Key::Down)
update_down(p) ==
    With(cursor_down(p), LAMBDA r :
        IF r.p.res # "Ok" \/ r.ret THEN r.p ELSE index_to_back(r.p))

\* the line cursor_up moved to: self.index = line.index_back(corrected.into())?
left_to_line_above(q, corrected) ==
    LET now == current_line(q)
    IN  IF now.res # "Ok" THEN Fail(q, now.res)
        ELSE With(index_back(now.val, Valid(corrected)), LAMBDA back :
                 IF back.res # "Ok" THEN Fail(q, back.res)
                 ELSE [q EXCEPT !.index = Valid(back.val)])

\* pressed!(Key::Left, ctrl) with word = TRUE, pressed!(Key::Left) with word = FALSE
update_left(p, word) ==
    LET line == current_line(p)
    IN  IF line.res # "Ok" THEN Fail(p, line.res)
        ELSE With(correct_index(line.val, p.index), LAMBDA corrected :
             With(IF word THEN index_backward_word(line.val, corrected)
                          ELSE index_backward(line.val, corrected), LAMBDA step :
                 IF step.res # "Ok" THEN Fail(p, step.res)
                 ELSE IF step.val # None THEN [p EXCEPT !.index = Valid(step.val.val)]
                 ELSE With(cursor_up(p), LAMBDA r :
                          IF r.p.res # "Ok" THEN r.p
                          ELSE IF r.ret THEN left_to_line_above(r.p, corrected)
                          ELSE [r.p EXCEPT !.index = Valid(corrected)])))

\* pressed!(Key::Right, ctrl) with word = TRUE, pressed!(Key::Right) with word = FALSE
update_right(p, word) ==
    LET line == current_line(p)
    IN  IF line.res # "Ok" THEN Fail(p, line.res)
        ELSE With(correct_index(line.val, p.index), LAMBDA corrected :
             With(IF word THEN index_forward_word(line.val, corrected)
                          ELSE index_forward(line.val, corrected), LAMBDA step :
                 IF step.res # "Ok" THEN Fail(p, step.res)
                 ELSE IF step.val # None THEN [p EXCEPT !.index = Valid(step.val.val)]
                 ELSE With(cursor_down(p), LAMBDA r :
                          IF r.p.res # "Ok" THEN r.p
                          ELSE IF r.ret THEN [r.p EXCEPT !.index = index_front]
                          ELSE [r.p EXCEPT !.index = Valid(corrected)])))

\* pressed!(Key::Home, ctrl)
update_home_ctrl(p) ==
    With(jump_top(p), LAMBDA q :
        IF q.res # "Ok" THEN q ELSE [q EXCEPT !.index = index_front])

\* pressed!(Key::Home)
update_home(p) == [p EXCEPT !.index = index_front]

\* pressed!(Key::End, ctrl)
update_end_ctrl(p) ==
    With(jump_bottom(p), LAMBDA q :
        IF q.res # "Ok" THEN q ELSE index_to_back(q))

\* pressed!(Key::End)
update_end(p) == index_to_back(p)

\* VecDeque::insert panics when the place is past the end
lines_insert(p, line) ==
    IF p.active > Len(p.lines) THEN Fail(p, "Panic")
    ELSE [p EXCEPT !.lines = Take(p.lines, p.active) \o <<line>> \o Drop(p.lines, p.active)]

\* self.fix_lines()? after an insertion that may have failed
then_fix_lines(q) == IF q.res # "Ok" THEN q ELSE fix_lines(q)

\* pressed!(Key::Enter, shift + ctrl)
update_enter_shift_ctrl(p) == then_fix_lines(lines_insert(p, <<>>))

\* pressed!(Key::Enter, ctrl)
update_enter_ctrl(p) ==
    With(cursor_down(p), LAMBDA r :
        IF r.p.res # "Ok" THEN r.p ELSE then_fix_lines(lines_insert(r.p, <<>>)))

\* self.cursor_up()?, after an insertion that may have failed
then_cursor_up(q) == IF q.res # "Ok" THEN q ELSE cursor_up(q).p

\* self.cursor_down()?, after a step that may have failed
then_cursor_down(q) == IF q.res # "Ok" THEN q ELSE cursor_down(q).p

\* the if / else of the Enter arm: where the split-off line goes
enter_place(down, new_line) ==
    IF down.p.res # "Ok" THEN down.p
    ELSE IF down.ret THEN then_cursor_up(lines_insert(down.p, new_line))
    ELSE [down.p EXCEPT !.lines = Append(down.p.lines, new_line)]

\* pressed!(Key::Enter)
update_enter(p) ==
    LET line == current_line(p)
    IN  IF line.res # "Ok" THEN Fail(p, line.res)
        ELSE With(correct_index(line.val, p.index), LAMBDA corrected :
             LET split == split_at(line.val, corrected)
             IN  IF split.res # "Ok" THEN Fail(p, split.res)
                 ELSE then_cursor_down(then_fix_lines(enter_place(
                          cursor_down([set_current_line(p, split.line)
                                          EXCEPT !.index = index_front]),
                          split.val))))

\* self.index = ..index_back..; self.current_line_mut()?.append(line)
backspace_join(q, line) ==
    IF q.res # "Ok" THEN q
    ELSE With(index_to_back(q), LAMBDA back :
             IF back.res # "Ok" THEN back
             ELSE set_current_line(back, append(current_line(back).val, line)))

\* the merge arm shared by Backspace with and without ctrl: index at the front
backspace_merge(p) ==
    IF at_top(p) THEN p
    ELSE IF p.active >= Len(p.lines) THEN Fail(p, "Err")
    ELSE backspace_join(
             then_cursor_up(fix_lines(
                 [p EXCEPT !.lines = Take(p.lines, p.active) \o Drop(p.lines, p.active + 1)])),
             p.lines[p.active + 1])

\* pressed!(Key::Backspace, ctrl) with word = TRUE, pressed!(Key::Backspace) otherwise
update_backspace(p, word) ==
    IF at_front(p.index) THEN backspace_merge(p)
    ELSE LET line == current_line(p)
         IN  IF line.res # "Ok" THEN Fail(p, line.res)
             ELSE With(correct_index(line.val, p.index), LAMBDA corrected :
                  With(IF word THEN index_backward_word(line.val, corrected)
                               ELSE index_backward(line.val, corrected), LAMBDA step :
                      IF step.res # "Ok" THEN Fail(p, step.res)
                      ELSE LET index == IF step.val = None THEN IndexDefault ELSE step.val.val
                               cut == IF word THEN remove_range(line.val, index, corrected)
                                              ELSE remove(line.val, index)
                           IN  IF cut.res # "Ok" THEN Fail(p, cut.res)
                               ELSE [set_current_line(p, cut.val) EXCEPT !.index = Valid(index)]))

\* self.current_line_mut()?.prepend(line)
delete_join(fixed, line) ==
    LET now == current_line(fixed)
    IN  IF fixed.res # "Ok" THEN fixed
        ELSE IF now.res # "Ok" THEN Fail(fixed, now.res)
        ELSE set_current_line(fixed, prepend(now.val, line))

\* the merge arm shared by Delete with and without ctrl: corrected at the back
delete_merge(p) ==
    LET bottom == at_bottom(p)
    IN  IF bottom.res # "Ok" THEN Fail(p, bottom.res)
        ELSE IF bottom.val THEN p
        ELSE IF p.active >= Len(p.lines) THEN Fail(p, "Err")
        ELSE delete_join(
                 fix_lines([p EXCEPT !.lines =
                               Take(p.lines, p.active) \o Drop(p.lines, p.active + 1)]),
                 p.lines[p.active + 1])

\* the range Delete with ctrl removes: up to the next word, else to the back
delete_word(line, corrected) ==
    With(index_forward_word(line, corrected), LAMBDA fwd :
        IF fwd.res # "Ok" THEN fwd
        ELSE IF fwd.val # None THEN remove_range(line, corrected, fwd.val.val)
        ELSE With(index_back(line, Valid(corrected)), LAMBDA back :
                 IF back.res # "Ok" THEN back
                 ELSE remove_range(line, corrected, back.val)))

\* pressed!(Key::Delete, ctrl) with word = TRUE, pressed!(Key::Delete) otherwise
update_delete(p, word) ==
    LET line == current_line(p)
    IN  IF line.res # "Ok" THEN Fail(p, line.res)
        ELSE With(correct_index(line.val, p.index), LAMBDA corrected :
             With(IF at_back(line.val, corrected) THEN delete_merge(p)
                  ELSE With(IF word THEN delete_word(line.val, corrected)
                                    ELSE remove(line.val, corrected), LAMBDA cut :
                           IF cut.res # "Ok" THEN Fail(p, cut.res)
                           ELSE set_current_line(p, cut.val)), LAMBDA q :
                 IF q.res # "Ok" THEN q ELSE [q EXCEPT !.index = Valid(corrected)]))

\* for _ in 0..n { self.scroll_down()?; }
RECURSIVE scroll_down_times(_, _)
scroll_down_times(p, n) ==
    IF n = 0 \/ p.res # "Ok" THEN p ELSE scroll_down_times(scroll_down(p).p, n - 1)

\* for _ in 0..n { self.scroll_up()?; }
RECURSIVE scroll_up_times(_, _)
scroll_up_times(p, n) ==
    IF n = 0 \/ p.res # "Ok" THEN p ELSE scroll_up_times(scroll_up(p).p, n - 1)

\* pressed!(Key::PageDown)
update_page_down(p) == scroll_down_times(p, Len(p.lines) \div 2)

\* pressed!(Key::PageUp)
update_page_up(p) == scroll_up_times(p, Len(p.lines) \div 2)

\* Message::Input(Input::ScrollDown)
update_scroll_down(p) == scroll_down_times(p, SCROLL_DIST)

\* Message::Input(Input::ScrollUp)
update_scroll_up(p) == scroll_up_times(p, SCROLL_DIST)

\* A message: a key with its modifiers, or a wheel pulse (key "ScrollDown" /
\* "ScrollUp"); c is the character of Key::Char.
Pressed(key, shift, ctrl) == [key |-> key, shift |-> shift, ctrl |-> ctrl, c |-> ""]
Typed(c, shift, ctrl) == [key |-> "Char", shift |-> shift, ctrl |-> ctrl, c |-> c]

\* Portal::update: the arms in the order the match tries them
update(p, m) ==
    CASE m.key = "Up" -> update_up(p)
      [] m.key = "Down" -> update_down(p)
      [] m.key = "Left" -> update_left(p, m.ctrl)
      [] m.key = "Right" -> update_right(p, m.ctrl)
      [] m.key = "Home" -> IF m.ctrl THEN update_home_ctrl(p) ELSE update_home(p)
      [] m.key = "End" -> IF m.ctrl THEN update_end_ctrl(p) ELSE update_end(p)
      [] m.key = "Char" -> type_char(p, m.c)
      [] m.key = "Tab" -> type_char(p, Tab)
      [] m.key = "Enter" -> IF m.shift /\ m.ctrl THEN update_enter_shift_ctrl(p)
                            ELSE IF m.ctrl THEN update_enter_ctrl(p)
                            ELSE update_enter(p)
      [] m.key = "Backspace" -> update_backspace(p, m.ctrl)
      [] m.key = "Delete" -> update_delete(p, m.ctrl)
      [] m.key = "PageDown" -> update_page_down(p)
      [] m.key = "PageUp" -> update_page_up(p)
      [] m.key = "ScrollDown" -> update_scroll_down(p)
      [] m.key = "ScrollUp" -> update_scroll_up(p)
      [] OTHER -> p

-----------------------------------------------------------------------------
(* The files the model opens *)

Pattern ==
    << <<"a", "b">>, <<Tab, "c">>, <<>>, <<EAcute, "d">>, <<"e", " ", "f">>, <<"g">>,
       <<"h", Tab>>, <<"i">>, <<"j", "k">>, <<"l">>, <<"m">>, <<"n">> >>

\* the file of n lines, as BufRead::lines yields it
Text(n) == [i \in 1..n |-> Pattern[((i - 1) % Len(Pattern)) + 1]]

\* the characters Key::Char delivers
TypedChars == {"x"}

-----------------------------------------------------------------------------
(* List (utils/list.rs): a doubly linked list in a Vec, linked by indices *)

\* List::new
List_new == [items |-> <<>>, front |-> 0, back |-> 0, res |-> "Ok"]

\* Node { item, next: 0, prev: 0 }
ListNode(item) == [item |-> item, next |-> 0, prev |-> 0]

\* self.items[i].next = v: an index past the Vec's end panics
list_set_next(l, i, v) ==
    IF l.res # "Ok" THEN l
    ELSE IF i >= Len(l.items) THEN [l EXCEPT !.res = "Panic"]
    ELSE [l EXCEPT !.items[i + 1].next = v]

\* self.items[i].prev = v
list_set_prev(l, i, v) ==
    IF l.res # "Ok" THEN l
    ELSE IF i >= Len(l.items) THEN [l EXCEPT !.res = "Panic"]
    ELSE [l EXCEPT !.items[i + 1].prev = v]

\* Vec::swap_remove(i), i < len: the last element takes the place of the removed one
swap_remove(items, i) ==
    IF i = Len(items) - 1 THEN Take(items, Len(items) - 1)
    ELSE [Take(items, Len(items) - 1) EXCEPT ![i + 1] = items[Len(items)]]

\* List::push_back
List_push_back(l, item) ==
    With([l EXCEPT !.items = Append(l.items, ListNode(item))], LAMBDA pushed :
    With(list_set_next(pushed, l.back, Len(pushed.items) - 1), LAMBDA linked :
    With(list_set_prev(linked, Len(pushed.items) - 1, l.back), LAMBDA q :
        IF q.res # "Ok" THEN q ELSE [q EXCEPT !.back = Len(pushed.items) - 1])))

\* List::push_front
List_push_front(l, item) ==
    With([l EXCEPT !.items = Append(l.items, ListNode(item))], LAMBDA pushed :
    With(list_set_prev(pushed, l.front, Len(pushed.items) - 1), LAMBDA linked :
    With(list_set_next(linked, Len(pushed.items) - 1, l.front), LAMBDA q :
        IF q.res # "Ok" THEN q ELSE [q EXCEPT !.front = Len(pushed.items) - 1])))

\* List::pop_back, the if let on the node swapped into the place of the back
pop_back_relink(l, swapped, end) ==
    IF swapped >= Len(l.items) THEN l
    ELSE With(IF l.items[swapped + 1].next # swapped
              THEN list_set_prev(l, l.items[swapped + 1].next, swapped)
              ELSE l, LAMBDA q :
         IF q.res # "Ok" THEN q
         ELSE IF l.front = end THEN [q EXCEPT !.front = swapped]
         ELSE list_set_next(q, l.items[swapped + 1].prev, swapped))

\* List::pop_back: the list it leaves and what it returns
List_pop_back(l) ==
    IF l.items = <<>> THEN Ret(l, None)
    ELSE IF l.back >= Len(l.items) THEN Ret([l EXCEPT !.res = "Panic"], None)
    ELSE With(pop_back_relink([l EXCEPT !.items = swap_remove(l.items, l.back)],
                              l.back, Len(l.items) - 1), LAMBDA q :
         IF q.res # "Ok" THEN Ret(q, None)
         ELSE Ret(IF l.items[l.back + 1].prev # Len(l.items) - 1
                  THEN [q EXCEPT !.back = l.items[l.back + 1].prev]
                  ELSE q,
                  Some(l.items[l.back + 1].item)))

\* List::pop_front, the if let on the node swapped into the place of the front
pop_front_relink(l, swapped, end) ==
    IF swapped >= Len(l.items) THEN l
    ELSE With(IF l.items[swapped + 1].prev # swapped
              THEN list_set_next(l, l.items[swapped + 1].prev, swapped)
              ELSE l, LAMBDA q :
         IF q.res # "Ok" THEN q
         ELSE IF l.back = end THEN [q EXCEPT !.back = swapped]
         ELSE list_set_prev(q, l.items[swapped + 1].next, swapped))

\* List::pop_front: the list it leaves and what it returns
List_pop_front(l) ==
    IF l.items = <<>> THEN Ret(l, None)
    ELSE IF l.front >= Len(l.items) THEN Ret([l EXCEPT !.res = "Panic"], None)
    ELSE With(pop_front_relink([l EXCEPT !.items = swap_remove(l.items, l.front)],
                               l.front, Len(l.items) - 1), LAMBDA q :
         IF q.res # "Ok" THEN Ret(q, None)
         ELSE Ret(IF l.items[l.front + 1].next # Len(l.items) - 1
                  THEN [q EXCEPT !.front = l.items[l.front + 1].next]
                  ELSE q,
                  Some(l.items[l.front + 1].item)))

\* List::len, List::is_empty
List_len(l) == Len(l.items)
List_is_empty(l) == l.items = <<>>

-----------------------------------------------------------------------------
(* SlotList (utils/slotlist.rs): a doubly linked list in a SlotMap, linked by keys *)

\* SlotMap::insert: a key no node of the map has
NewKey(map) == CHOOSE k \in 1..(Cardinality(DOMAIN map) + 1) : k \notin DOMAIN map

\* the map with the node stored under the key
Stored(map, key, node) ==
    [k \in DOMAIN map \cup {key} |-> IF k = key THEN node ELSE map[k]]

\* SlotList::new
SlotList_new == [map |-> [k \in {} |-> None], front |-> None, back |-> None]

\* SlotList::push_back.  The code sets self.back alone: pushed onto an empty
\* list, the element does not become its front.
SlotList_push_back(l, item) ==
    With(NewKey(l.map), LAMBDA new_key :
    With(Stored(l.map, new_key, [next |-> None, prev |-> l.back, item |-> item]),
         LAMBDA map :
        [map |-> IF l.back # None
                 THEN [map EXCEPT ![l.back.val].next = Some(new_key)]
                 ELSE map,
         front |-> l.front,
         back |-> Some(new_key)]))

\* SlotList::push_front.  The code sets self.front alone: pushed onto an empty
\* list, the element does not become its back.
SlotList_push_front(l, item) ==
    With(NewKey(l.map), LAMBDA new_key :
    With(Stored(l.map, new_key, [next |-> l.front, prev |-> None, item |-> item]),
         LAMBDA map :
        [map |-> IF l.front # None
                 THEN [map EXCEPT ![l.front.val].prev = Some(new_key)]
                 ELSE map,
         front |-> Some(new_key),
         back |-> l.back]))

\* FromIterator for SlotList, the body of its for loop: st holds map, front, prev
from_iter_step(st, item) ==
    With(NewKey(st.map), LAMBDA key :
    With(Stored(st.map, key, [next |-> None, prev |-> st.prev, item |-> item]),
         LAMBDA map :
        [map |-> IF st.prev # None
                 THEN [map EXCEPT ![st.prev.val].next = Some(key)]
                 ELSE map,
         front |-> IF st.front = None THEN Some(key) ELSE st.front,
         prev |-> Some(key)]))

RECURSIVE from_iter_loop(_, _)
from_iter_loop(st, items) ==
    IF items = <<>> THEN st
    ELSE from_iter_loop(from_iter_step(st, Head(items)), Tail(items))

\* FromIterator for SlotList
SlotList_from_iter(items) ==
    With(from_iter_loop([map |-> SlotList_new.map, front |-> None, prev |-> None], items),
         LAMBDA st : [map |-> st.map, front |-> st.front, back |-> st.prev])

\* IntoIterator for &SlotList
SlotList_iter(l) == [front |-> l.front, back |-> l.back]

\* Iter::next: the iterator it leaves and what it yields.  self.front? yields
\* None on a front that is None.
Iter_next(l, it) ==
    IF it.front = it.back THEN Ret(it, None)
    ELSE IF it.front = None THEN Ret(it, None)
    ELSE Ret([it EXCEPT !.front = l.map[it.front.val].next],
             Some(l.map[it.front.val].item))

\* Iter::next_back
Iter_next_back(l, it) ==
    IF it.back = it.front THEN Ret(it, None)
    ELSE IF it.back = None THEN Ret(it, None)
    ELSE Ret([it EXCEPT !.back = l.map[it.back.val].prev],
             Some(l.map[it.back.val].item))

\* Iterator::collect on an Iter: what next yields until its first None
RECURSIVE Iter_collect(_, _)
Iter_collect(l, it) ==
    With(Iter_next(l, it), LAMBDA r :
        IF r.ret = None THEN <<>> ELSE <<r.ret.val>> \o Iter_collect(l, r.p))

\* Iterator::rev().collect() on an Iter: what next_back yields until its first None
RECURSIVE Iter_collect_rev(_, _)
Iter_collect_rev(l, it) ==
    With(Iter_next_back(l, it), LAMBDA r :
        IF r.ret = None THEN <<>> ELSE <<r.ret.val>> \o Iter_collect_rev(l, r.p))

\* Debug for SlotList: f.debug_list().entries(self).finish() lists what
\* iterating by reference yields
SlotList_debug(l) == Iter_collect(l, SlotList_iter(l))

\* PartialEq for SlotList: self.iter().eq(other)
SlotList_eq(l, other) ==
    Iter_collect(l, SlotList_iter(l)) = Iter_collect(other, SlotList_iter(other))

-----------------------------------------------------------------------------
(* The input thread (input.rs) and the run loop (core.rs) *)

\* thread::spawn of the reading loop: it has read no event yet
Thread_spawn == [pc |-> "running", read |-> 0]

\* Input::new: the Cell holds the JoinHandle
Input_new == Some("join_handle")

\* Core::run before its first round: updated = true
Core_run == [pc |-> "read", updated |-> TRUE, quit |-> FALSE, message |-> None, id |-> 0,
             res |-> "Ok", log |-> <<>>]

-----------------------------------------------------------------------------
(* The FilePicker (filepicker.rs) and the directory tree it browses *)

\* an io::Error of the given ErrorKind
IoError(kind) == [res |-> "Err", kind |-> kind]

\* the entries fs::read_dir yields for each directory that can be read
Listing ==
    "cwd" :> <<"docs", "empty", "locked", "notes.txt", "image.bin", "secret", "link">>
    @@ "docs" :> <<"a.txt", "gone", "blank">>
    @@ "empty" :> <<>>

\* DirEntry::file_type of each entry (a symbolic link is neither file nor dir)
FileTypes ==
    "docs" :> "dir" @@ "empty" :> "dir" @@ "locked" :> "dir"
    @@ "notes.txt" :> "file" @@ "image.bin" :> "file" @@ "secret" :> "file"
    @@ "link" :> "symlink"
    @@ "a.txt" :> "file" @@ "gone" :> "file" @@ "blank" :> "file"

\* what File::open and BufRead::lines make of each file: its lines, or the
\* io::Error of a file that is not UTF-8, that may not be read, or that was
\* removed after the directory was listed
FileReads ==
    "notes.txt" :> Ok(Text(3)) @@ "a.txt" :> Ok(Text(1)) @@ "blank" :> Ok(Text(0))
    @@ "image.bin" :> IoError("InvalidData")
    @@ "secret" :> IoError("PermissionDenied")
    @@ "gone" :> IoError("NotFound")

\* fs::read_dir and the collect of its entries
read_dir(path) ==
    IF path \in DOMAIN Listing
    THEN Ok([i \in 1..Len(Listing[path]) |->
                [path |-> Listing[path][i], file_type |-> FileTypes[Listing[path][i]]]])
    ELSE IoError("PermissionDenied")

\* the outcome of a FilePicker method: the picker it leaves and what it returned
Updated(fp, r) == [picker |-> fp, ret |-> r]

\* FilePicker::open
FilePicker_open(fp) ==
    IF read_dir(fp.history[Len(fp.history)]).res = "Ok"
    THEN Updated([fp EXCEPT !.entries = read_dir(fp.history[Len(fp.history)]).val,
                            !.selected = 0],
                 Ok(None))
    ELSE Updated(fp, read_dir(fp.history[Len(fp.history)]))

\* FilePicker::new (the working directory can be read)
FilePicker_new ==
    FilePicker_open([entries |-> <<>>, selected |-> 0, history |-> <<"cwd">>]).picker

\* Message::Open(path) as the value of an update
OpenMessage(path) == Ok(Some([open |-> path]))

\* FilePicker::update, pressed!(Key::Up)
FilePicker_up(fp) ==
    IF fp.selected = 0
    THEN IF USub(Len(fp.entries), 1).res = "Ok"
         THEN Updated([fp EXCEPT !.selected = USub(Len(fp.entries), 1).val], Ok(None))
         ELSE Updated(fp, Panic)
    ELSE Updated([fp EXCEPT !.selected = fp.selected - 1], Ok(None))

\* FilePicker::update, pressed!(Key::Down)
FilePicker_down(fp) ==
    IF USub(Len(fp.entries), 1).res # "Ok" THEN Updated(fp, Panic)
    ELSE IF fp.selected = USub(Len(fp.entries), 1).val
    THEN Updated([fp EXCEPT !.selected = 0], Ok(None))
    ELSE Updated([fp EXCEPT !.selected = UAdd(fp.selected, 1)], Ok(None))

\* FilePicker::update, pressed!(Key::Enter)
FilePicker_enter(fp) ==
    IF fp.selected >= Len(fp.entries) THEN Updated(fp, Panic)
    ELSE IF fp.entries[fp.selected + 1].file_type = "file"
    THEN Updated(fp, OpenMessage(fp.entries[fp.selected + 1].path))
    ELSE IF fp.entries[fp.selected + 1].file_type = "dir"
    THEN FilePicker_open([fp EXCEPT !.history = Append(@, fp.entries[fp.selected + 1].path)])
    ELSE Updated(fp, Ok(None))

\* FilePicker::update, pressed!(Key::Esc)
FilePicker_esc(fp) ==
    IF Len(fp.history) = 1 THEN Updated(fp, Ok(None))
    ELSE FilePicker_open([fp EXCEPT !.history = Take(@, Len(@) - 1)])

\* FilePicker::update
FilePicker_update(fp, m) ==
    CASE m.key = "Up" -> FilePicker_up(fp)
      [] m.key = "Down" -> FilePicker_down(fp)
      [] m.key = "Enter" -> FilePicker_enter(fp)
      [] m.key = "Esc" -> FilePicker_esc(fp)
      [] OTHER -> Updated(fp, Ok(None))

open_failed_swallows(error) == Ok(None)

\* Content::update, Message::Open: what the update returns when Portal::open
\* failed with the given io::Error (Portal::open fails with no other error)
open_failed(error) ==
    IF error.kind # "InvalidData" THEN error ELSE Ok(None)

-----------------------------------------------------------------------------
(* The state machine: Content (screen.rs) holding a FilePicker or a Portal *)

\* the portal variable while the FilePicker is shown
NoPortal == Portal_open(<<>>, 0)

\* the out variable before any call
NoCall == [op |-> "none", val |-> None]

\* the picker variable while a Portal is shown
NoPicker == [entries |-> <<>>, selected |-> 0, history |-> <<>>]

\* the ret variable of a FilePicker that has handled no message
NoReturn == [res |-> "none"]

\* the got variable before any operation
NoOp == [op |-> "none"]

\* Frame::update down to Content::update, and Input::read

\* Message::Quit
Quit == [quit |-> TRUE]

\* the variant of a Message
IsInput(m) == "key" \in DOMAIN m
IsOpen(m) == "open" \in DOMAIN m
IsQuit(m) == "quit" \in DOMAIN m

\* the window: the Content with its FilePicker or its Portal
Held(c, fp, p, f) == [content |-> c, picker |-> fp, portal |-> p, file |-> f]

\* Content::update: the window it leaves and what it returns
Returned(w, r) == [window |-> w, ret |-> r]

\* what an update of the Portal returns: Ok(None), or its error or panic
PortalReturn(p) == IF p.res = "Ok" THEN Ok(None) ELSE [res |-> p.res]

\* Content::update, Message::Open(path)
Content_open(w, path) ==
    IF w.content # "FilePicker" THEN Returned(w, Ok(None))
    ELSE IF FileReads[path].res = "Ok"
    THEN Returned(Held("Portal", NoPicker,
                        Portal_open(FileReads[path].val, PickHeight),
                        FileReads[path].val),
                 Ok(None))
    ELSE Returned(w, open_failed(FileReads[path]))

\* Content::update: the window it leaves and what it returns
Content_update(w, m) ==
    IF IsOpen(m) THEN Content_open(w, m.open)
    ELSE IF w.content = "Portal"
    THEN IF IsInput(m) /\ m.key = "Esc"
         THEN Returned(Held("FilePicker", FilePicker_new, NoPortal, <<>>), Ok(None))
         ELSE IF IsInput(m)
         THEN Returned([w EXCEPT !.portal = update(w.portal, m)],
                      PortalReturn(update(w.portal, m)))
         ELSE Returned(w, Ok(None))
    ELSE IF IsInput(m)
    THEN Returned([w EXCEPT !.picker = FilePicker_update(w.picker, m).picker],
                 FilePicker_update(w.picker, m).ret)
    ELSE Returned(w, Ok(None))

\* Frame::update: Ctrl+C and Ctrl+X answer Quit and go no further; all else
\* goes through Window, Screen, Column and Tile to the Content
Frame_update(w, m) ==
    IF IsInput(m) /\ m.key = "Char" /\ m.c \in {"c", "x"} /\ m.ctrl
    THEN Returned(w, Ok(Some(Quit)))
    ELSE Content_update(w, m)

\* the events event::read yields, and Input::try_from of each (None for an
\* event that is no Input)
EventKinds == {"Down", "Enter", "Ctrl+C", "Ctrl+X", "Resize"}

try_from(event) ==
    CASE event = "Down" -> Some(Pressed("Down", FALSE, FALSE))
      [] event = "Enter" -> Some(Pressed("Enter", FALSE, FALSE))
      [] event = "Ctrl+C" -> Some(Typed("c", FALSE, TRUE))
      [] event = "Ctrl+X" -> Some(Typed("x", FALSE, TRUE))
      [] OTHER -> None

\* the channel after sender.send(event), with the event put in front
send_in_front(ch, event) == <<event>> \o ch

\* the channel after sender.send(event)
send(ch, event) == Append(ch, event)

\* Input::read without the test of is_finished
Input_read_skips_finished(cell, th) ==
    IF cell = None THEN [input |-> None, res |-> "Err", error |-> "read after an error"]
    ELSE [input |-> cell, res |-> "Ok", error |-> ""]

\* Input::read: the Cell it leaves and its result
Input_read(cell, th) ==
    IF cell = None THEN [input |-> None, res |-> "Err", error |-> "read after an error"]
    ELSE IF th.pc = "finished"
    THEN [input |-> None, res |-> "Err", error |-> "the input thread's error"]
    ELSE [input |-> cell, res |-> "Ok", error |-> ""]

\* the body of the while let, with Quit handed on like any other message
dispatched_forgets_quit(c, r) ==
    IF r.res # "Ok" THEN [c EXCEPT !.pc = "exit", !.res = r.res]
    ELSE IF r.val = None
    THEN IF c.quit THEN [c EXCEPT !.pc = "exit"] ELSE [c EXCEPT !.pc = "iterate"]
    ELSE IF IsInput(r.val.val) THEN [c EXCEPT !.pc = "exit", !.res = "Err"]
    ELSE [c EXCEPT !.message = r.val.val]

\* Core::run, the body of the while let: the loop after update returned r
dispatched(c, r) ==
    IF r.res # "Ok" THEN [c EXCEPT !.pc = "exit", !.res = r.res]
    ELSE IF r.val = None
    THEN IF c.quit THEN [c EXCEPT !.pc = "exit"] ELSE [c EXCEPT !.pc = "iterate"]
    ELSE IF IsInput(r.val.val) THEN [c EXCEPT !.pc = "exit", !.res = "Err"]
    ELSE IF IsQuit(r.val.val) THEN [c EXCEPT !.quit = TRUE, !.message = Quit]
    ELSE [c EXCEPT !.message = r.val.val]

\* the lists and the run loop as they are constructed
Aside ==
    /\ list = List_new
    /\ slotlist = SlotList_new
    /\ deque = <<>>
    /\ got = NoOp
    /\ thread = Thread_spawn
    /\ channel = <<>>
    /\ input = Input_new
    /\ core = Core_run

Init ==
    /\ content = "FilePicker"
    /\ portal = NoPortal
    /\ file = <<>>
    /\ build \in {"debug", "release"}
    /\ edits = 0
    /\ trail = <<>>
    /\ before = NoPortal
    /\ subject = <<>>
    /\ arg = index_front
    /\ out = NoCall
    /\ picker = FilePicker_new
    /\ ret = NoReturn
    /\ Aside

\* Content::update, Message::Open on a FilePicker: Portal::open succeeded
OpenFile(n, height) ==
    /\ content = "FilePicker"
    /\ content' = "Portal"
    /\ file' = Text(n)
    /\ portal' = Portal_open(Text(n), height)
    /\ edits' = 0
    /\ trail' = <<>>
    /\ before' = NoPortal
    /\ picker' = NoPicker
    /\ ret' = Ok(None)
    /\ UNCHANGED <<build, lineVars, listVars, coreVars>>

\* Spec: a small file in a small viewport
Open == \E n \in 0..MaxLines, height \in 1..MaxHeight : OpenFile(n, height)

\* SpecNav, SpecScenario: a file longer than the viewport is high
OpenNav == \E n \in 0..NavLines, height \in 1..NavHeight : OpenFile(n, height)

\* Content::update, every other message on a Portal: buffer.update(message).
\* An update that failed ended the run loop, so none follows it.  Without
\* overflow checks cursor_down can push active past the last line without end,
\* and a stale Valid cursor can gain display columns without end; MaxStray and
\* MaxDisplay bound how far the model follows them.
Handle(m) ==
    /\ content = "Portal"
    /\ portal.res = "Ok"
    /\ portal.active < Len(portal.lines) + MaxStray
    /\ portal.index.display <= MaxDisplay
    /\ portal' = update(portal, m)
    /\ UNCHANGED <<content, file, build, lineVars, listVars, coreVars, pickVars>>

\* an event that leaves the text alone
Moving == UNCHANGED <<edits, trail, before>>

\* an event that may change the text: the model follows MaxEdits of them
Editing == edits < MaxEdits /\ edits' = edits + 1 /\ UNCHANGED <<trail, before>>

\* an event of a scenario: the key is recorded
Recording(key) ==
    /\ Len(trail) < TrailLen
    /\ trail' = Append(trail, key)
    /\ UNCHANGED <<edits, before>>

\* One action per arm of Portal::update.  A modifier the arm's pattern leaves
\* open (..) does not reach the arm's code; the model presses it unmodified.
KeyUp == Handle(Pressed("Up", FALSE, FALSE)) /\ Moving
KeyDown == Handle(Pressed("Down", FALSE, FALSE)) /\ Moving
KeyLeftCtrl == Handle(Pressed("Left", FALSE, TRUE)) /\ Moving
KeyLeft == Handle(Pressed("Left", FALSE, FALSE)) /\ Moving
KeyRightCtrl == Handle(Pressed("Right", FALSE, TRUE)) /\ Moving
KeyRight == Handle(Pressed("Right", FALSE, FALSE)) /\ Moving
KeyHomeCtrl == Handle(Pressed("Home", FALSE, TRUE)) /\ Moving
KeyHome == Handle(Pressed("Home", FALSE, FALSE)) /\ Moving
KeyEndCtrl == Handle(Pressed("End", FALSE, TRUE)) /\ Moving
KeyEnd == Handle(Pressed("End", FALSE, FALSE)) /\ Moving
KeyPageDown == Handle(Pressed("PageDown", FALSE, FALSE)) /\ Moving
KeyPageUp == Handle(Pressed("PageUp", FALSE, FALSE)) /\ Moving
WheelDown == Handle(Pressed("ScrollDown", FALSE, FALSE)) /\ Moving
WheelUp == Handle(Pressed("ScrollUp", FALSE, FALSE)) /\ Moving
KeyOther == \E key \in {"Insert", "CapsLock"} : Handle(Pressed(key, FALSE, FALSE)) /\ Moving

KeyChar == \E c \in TypedChars : Editing /\ Handle(Typed(c, FALSE, FALSE))
KeyTab == Editing /\ Handle(Pressed("Tab", FALSE, FALSE))
KeyEnterShiftCtrl == Editing /\ Handle(Pressed("Enter", TRUE, TRUE))
KeyEnterCtrl == Editing /\ Handle(Pressed("Enter", FALSE, TRUE))
KeyEnter == Editing /\ Handle(Pressed("Enter", FALSE, FALSE))
KeyBackspaceCtrl == Editing /\ Handle(Pressed("Backspace", FALSE, TRUE))
KeyBackspace == Editing /\ Handle(Pressed("Backspace", FALSE, FALSE))
KeyDeleteCtrl == Editing /\ Handle(Pressed("Delete", FALSE, TRUE))
KeyDelete == Editing /\ Handle(Pressed("Delete", FALSE, FALSE))

\* Content::update, pressed!(Key::Esc) on a Portal: back to the FilePicker
KeyEsc ==
    /\ content = "Portal"
    /\ portal.res = "Ok"
    /\ content' = "FilePicker"
    /\ portal' = NoPortal
    /\ file' = <<>>
    /\ edits' = 0
    /\ trail' = <<>>
    /\ before' = NoPortal
    /\ picker' = FilePicker_new
    /\ ret' = NoReturn
    /\ UNCHANGED <<build, lineVars, listVars, coreVars>>

Next ==
    \/ Open
    \/ KeyUp
    \/ KeyDown
    \/ KeyLeftCtrl
    \/ KeyLeft
    \/ KeyRightCtrl
    \/ KeyRight
    \/ KeyHomeCtrl
    \/ KeyHome
    \/ KeyEndCtrl
    \/ KeyEnd
    \/ KeyPageDown
    \/ KeyPageUp
    \/ WheelDown
    \/ WheelUp
    \/ KeyOther
    \/ KeyChar
    \/ KeyTab
    \/ KeyEnterShiftCtrl
    \/ KeyEnterCtrl
    \/ KeyEnter
    \/ KeyBackspaceCtrl
    \/ KeyBackspace
    \/ KeyDeleteCtrl
    \/ KeyDelete
    \/ KeyEsc

Spec == Init /\ [][Next]_vars

\* Moving and scrolling only, in files longer than the viewport
NextNav ==
    \/ OpenNav
    \/ KeyUp
    \/ KeyDown
    \/ KeyLeftCtrl
    \/ KeyLeft
    \/ KeyRightCtrl
    \/ KeyRight
    \/ KeyHomeCtrl
    \/ KeyHome
    \/ KeyEndCtrl
    \/ KeyEnd
    \/ KeyPageDown
    \/ KeyPageUp
    \/ WheelDown
    \/ WheelUp
    \/ KeyOther
    \/ KeyEsc

SpecNav == Init /\ [][NextNav]_vars

\* The first TrailLen vertical keys after a file is opened, recorded in trail
PressUp == Recording("Up") /\ Handle(Pressed("Up", FALSE, FALSE))
PressDown == Recording("Down") /\ Handle(Pressed("Down", FALSE, FALSE))
PressPageUp == Recording("PageUp") /\ Handle(Pressed("PageUp", FALSE, FALSE))
PressPageDown == Recording("PageDown") /\ Handle(Pressed("PageDown", FALSE, FALSE))

NextScenario ==
    \/ OpenNav
    \/ PressUp
    \/ PressDown
    \/ PressPageUp
    \/ PressPageDown

SpecScenario == Init /\ [][NextScenario]_vars

-----------------------------------------------------------------------------
(* One event seen from every place moving and scrolling lead to *)

\* SpecEdit: a file of up to EditLines lines in up to EditHeight rows
OpenEdit == \E n \in 0..EditLines, height \in 1..EditHeight : OpenFile(n, height)

\* moving and scrolling, before the event that is looked at
Roaming == trail = <<>>

\* the event that is looked at: its name is recorded and no event follows it
Last(name) ==
    /\ trail = <<>>
    /\ trail' = <<name>>
    /\ before' = portal
    /\ UNCHANGED edits

LastLeft == Last("Left") /\ Handle(Pressed("Left", FALSE, FALSE))
LastRight == Last("Right") /\ Handle(Pressed("Right", FALSE, FALSE))
LastChar == \E c \in TypedChars : Last("Char") /\ Handle(Typed(c, FALSE, FALSE))
LastTab == Last("Tab") /\ Handle(Pressed("Tab", FALSE, FALSE))
LastEnterCtrl == Last("Ctrl+Enter") /\ Handle(Pressed("Enter", FALSE, TRUE))
LastEnter == Last("Enter") /\ Handle(Pressed("Enter", FALSE, FALSE))
LastBackspace == Last("Backspace") /\ Handle(Pressed("Backspace", FALSE, FALSE))
LastDelete == Last("Delete") /\ Handle(Pressed("Delete", FALSE, FALSE))

NextEdit ==
    \/ OpenEdit
    \/ Roaming /\ KeyUp
    \/ Roaming /\ KeyDown
    \/ Roaming /\ KeyLeftCtrl
    \/ Roaming /\ KeyLeft
    \/ Roaming /\ KeyRightCtrl
    \/ Roaming /\ KeyRight
    \/ Roaming /\ KeyHomeCtrl
    \/ Roaming /\ KeyHome
    \/ Roaming /\ KeyEndCtrl
    \/ Roaming /\ KeyEnd
    \/ Roaming /\ KeyPageDown
    \/ Roaming /\ KeyPageUp
    \/ Roaming /\ WheelDown
    \/ Roaming /\ WheelUp
    \/ LastLeft
    \/ LastRight
    \/ LastChar
    \/ LastTab
    \/ LastEnterCtrl
    \/ LastEnter
    \/ LastBackspace
    \/ LastDelete
    \/ KeyEsc

SpecEdit == Init /\ [][NextEdit]_vars

-----------------------------------------------------------------------------
(* A file that grows past a thousand lines *)

\* a file of n empty lines
BlankText(n) == [i \in 1..n |-> <<>>]

\* SpecGutter: a file of GutterLines empty lines in GutterHeight rows
OpenGutter ==
    /\ content = "FilePicker"
    /\ content' = "Portal"
    /\ file' = BlankText(GutterLines)
    /\ portal' = Portal_open(BlankText(GutterLines), GutterHeight)
    /\ edits' = 0
    /\ trail' = <<>>
    /\ before' = NoPortal
    /\ picker' = NoPicker
    /\ ret' = Ok(None)
    /\ UNCHANGED <<build, lineVars, listVars, coreVars>>

\* an event that adds a line: SpecGutter follows GutterEdits of them
Growing == edits < GutterEdits /\ edits' = edits + 1 /\ UNCHANGED <<trail, before>>

GrowEnterCtrl == Growing /\ Handle(Pressed("Enter", FALSE, TRUE))

NextGutter ==
    \/ OpenGutter
    \/ KeyUp
    \/ KeyDown
    \/ KeyPageDown
    \/ KeyPageUp
    \/ WheelDown
    \/ WheelUp
    \/ GrowEnterCtrl

SpecGutter == Init /\ [][NextGutter]_vars

\* the characters of SpecLine's lines
LineChars == {Tab, "a", "b", EAcute}

\* every line of at most MaxLineLen characters
Lines == UNION {[1..n -> LineChars] : n \in 0..MaxLineLen}

\* the positions of a line: before each character and after the last
Positions(l) ==
    {Index(DisplayWidth(Take(l, k)), ByteLen(Take(l, k))) : k \in 0..Len(l)}

\* indices past the end of a line, as a deletion that shortened it leaves them
Beyond(l) ==
    {Index(DisplayWidth(l) + k, ByteLen(l) + k) : k \in 1..MaxBeyond}

\* a Line built from a String, and a RawIndex a caller can hold for it:
\* a display column to be resolved, one of the line's positions, or an index
\* past its end
InitLine ==
    /\ content = "FilePicker"
    /\ portal = NoPortal
    /\ file = <<>>
    /\ build \in {"debug", "release"}
    /\ edits = 0
    /\ trail = <<>>
    /\ before = NoPortal
    /\ subject \in Lines
    /\ arg \in {Invalid(d) : d \in 0..MaxColumn}
                \cup {Valid(ix) : ix \in Positions(subject) \cup Beyond(subject)}
    /\ out = NoCall
    /\ picker = FilePicker_new
    /\ ret = NoReturn
    /\ Aside

\* a call of a method of Line, and what it returned
Call(op, val) == out' = [op |-> op, val |-> val]

\* the line and the index the caller holds are left as they were
Kept ==
    UNCHANGED <<content, portal, file, build, edits, trail, before, subject, arg,
                pickVars, listVars, coreVars>>

\* the methods that take an Index are called with a Valid RawIndex's Index
CallCorrectIndex == Call("correct_index", correct_index(subject, arg)) /\ Kept

\* correct_index called on the Valid form of the index it returned
CallCorrectIndexAgain ==
    /\ out.op = "correct_index"
    /\ Call("correct_index again",
            [first |-> out.val, second |-> correct_index(subject, Valid(out.val))])
    /\ Kept

CallIndexForward ==
    /\ arg.tag = "Valid"
    /\ Call("index_forward", index_forward(subject, AsIndex(arg)))
    /\ Kept

CallIndexBackward ==
    /\ arg.tag = "Valid"
    /\ Call("index_backward", index_backward(subject, AsIndex(arg)))
    /\ Kept

CallIndexForwardWord ==
    /\ arg.tag = "Valid"
    /\ Call("index_forward_word", index_forward_word(subject, AsIndex(arg)))
    /\ Kept

CallIndexBackwardWord ==
    /\ arg.tag = "Valid"
    /\ Call("index_backward_word", index_backward_word(subject, AsIndex(arg)))
    /\ Kept

CallIndexBack == Call("index_back", index_back(subject, arg)) /\ Kept

\* let mut a = line.clone(); let b = a.split_at(index)?; a.append(b); a
split_then_append(l, index) ==
    With(split_at(l, index), LAMBDA cut :
        IF cut.res # "Ok" THEN cut ELSE Ok(append(cut.line, cut.val)))

CallSplitAppend ==
    /\ arg.tag = "Valid"
    /\ Call("split_at, append", split_then_append(subject, AsIndex(arg)))
    /\ Kept

CallInsert ==
    /\ arg.tag = "Valid"
    /\ \E c \in TypedChars : Call("insert", insert(subject, AsIndex(arg), c))
    /\ Kept

CallRemove ==
    /\ arg.tag = "Valid"
    /\ Call("remove", remove(subject, AsIndex(arg)))
    /\ Kept

NextLine ==
    \/ CallCorrectIndex
    \/ CallCorrectIndexAgain
    \/ CallIndexForward
    \/ CallIndexBackward
    \/ CallIndexForwardWord
    \/ CallIndexBackwardWord
    \/ CallIndexBack
    \/ CallSplitAppend
    \/ CallInsert
    \/ CallRemove

SpecLine == InitLine /\ [][NextLine]_vars

-----------------------------------------------------------------------------
(* Operations on a List and on a SlotList, beside a reference sequence *)

\* the elements pushed
ListItems == {"a", "b"}

\* every sequence of at most MaxListLen elements
ItemSeqs == UNION {[1..n -> ListItems] : n \in 0..MaxListLen}

\* all but the list under test is left as it was
ListOnly ==
    UNCHANGED <<content, portal, file, build, edits, trail, before, lineVars, pickVars,
                slotlist, coreVars>>

\* a panic ends the sequence of operations
ListUsable == list.res = "Ok"

\* the operation, what it returned, what the reference returns, and len and
\* is_empty after it
ListGot(op, l, val, want) ==
    [op |-> op, val |-> val, want |-> want,
     len |-> List_len(l), is_empty |-> List_is_empty(l)]

ListPushBack ==
    \E item \in ListItems :
        /\ ListUsable
        /\ Len(deque) < MaxListLen
        /\ list' = List_push_back(list, item)
        /\ deque' = Append(deque, item)
        /\ got' = ListGot("push_back", List_push_back(list, item), None, None)
        /\ ListOnly

ListPushFront ==
    \E item \in ListItems :
        /\ ListUsable
        /\ Len(deque) < MaxListLen
        /\ list' = List_push_front(list, item)
        /\ deque' = <<item>> \o deque
        /\ got' = ListGot("push_front", List_push_front(list, item), None, None)
        /\ ListOnly

ListPopBack ==
    /\ ListUsable
    /\ list' = List_pop_back(list).p
    /\ deque' = Take(deque, Len(deque) - 1)
    /\ got' = ListGot("pop_back", List_pop_back(list).p, List_pop_back(list).ret,
                      IF deque = <<>> THEN None ELSE Some(deque[Len(deque)]))
    /\ ListOnly

ListPopFront ==
    /\ ListUsable
    /\ list' = List_pop_front(list).p
    /\ deque' = Drop(deque, 1)
    /\ got' = ListGot("pop_front", List_pop_front(list).p, List_pop_front(list).ret,
                      IF deque = <<>> THEN None ELSE Some(deque[1]))
    /\ ListOnly

NextList ==
    \/ ListPushBack
    \/ ListPushFront
    \/ ListPopBack
    \/ ListPopFront

SpecList == Init /\ [][NextList]_vars

\* all but the SlotList under test is left as it was
SlotOnly ==
    UNCHANGED <<content, portal, file, build, edits, trail, before, lineVars, pickVars,
                list, coreVars>>

SlotFromIter ==
    \E items \in ItemSeqs :
        /\ slotlist' = SlotList_from_iter(items)
        /\ deque' = items
        /\ got' = [op |-> "from_iter"]
        /\ SlotOnly

SlotPushBack ==
    \E item \in ListItems :
        /\ Len(deque) < MaxListLen
        /\ slotlist' = SlotList_push_back(slotlist, item)
        /\ deque' = Append(deque, item)
        /\ got' = [op |-> "push_back"]
        /\ SlotOnly

SlotPushFront ==
    \E item \in ListItems :
        /\ Len(deque) < MaxListLen
        /\ slotlist' = SlotList_push_front(slotlist, item)
        /\ deque' = <<item>> \o deque
        /\ got' = [op |-> "push_front"]
        /\ SlotOnly

\* the list is iterated by reference, forwards and reversed, formatted with
\* Debug, and compared with a list collected from other elements
SlotIterate ==
    \E other \in ItemSeqs :
        /\ got' = [op |-> "iter",
                   val |-> Iter_collect(slotlist, SlotList_iter(slotlist)),
                   rev |-> Iter_collect_rev(slotlist, SlotList_iter(slotlist)),
                   debug |-> SlotList_debug(slotlist),
                   other |-> other,
                   eq |-> SlotList_eq(slotlist, SlotList_from_iter(other))]
        /\ UNCHANGED <<slotlist, deque>>
        /\ SlotOnly

NextSlot ==
    \/ SlotFromIter
    \/ SlotPushBack
    \/ SlotPushFront
    \/ SlotIterate

SpecSlot == Init /\ [][NextSlot]_vars

-----------------------------------------------------------------------------
(* The run loop beside the input thread *)

\* the window the variables hold
TheWindow == Held(content, picker, portal, file)

\* the input thread: event::read yielded an event, and it is sent.  The send
\* fails once run has returned and dropped the Receiver.
ThreadSend ==
    \E event \in EventKinds :
        /\ thread.pc = "running"
        /\ thread.read < MaxEvents
        /\ core.pc # "exit"
        /\ thread' = [thread EXCEPT !.read = @ + 1]
        /\ channel' = send(channel, [id |-> thread.read + 1, event |-> event])
        /\ UNCHANGED <<content, portal, file, build, edits, trail, before, lineVars,
                       pickVars, listVars, input, core>>

\* the input thread: event::read or the send failed, the closure returns its
\* error and drops the Sender
ThreadReturns ==
    /\ thread.pc = "running"
    /\ thread' = [thread EXCEPT !.pc = "returned"]
    /\ UNCHANGED <<content, portal, file, build, edits, trail, before, lineVars,
                   pickVars, listVars, channel, input, core>>

\* the input thread has stored its result: JoinHandle::is_finished is true
ThreadFinishes ==
    /\ thread.pc = "returned"
    /\ thread' = [thread EXCEPT !.pc = "finished"]
    /\ UNCHANGED <<content, portal, file, build, edits, trail, before, lineVars,
                   pickVars, listVars, channel, input, core>>

\* the window and the lists are left as they were
LoopOnly ==
    UNCHANGED <<content, portal, file, build, edits, trail, before, lineVars,
                pickVars, listVars, thread>>

\* Core::run: input_reader.read()?
CoreRead ==
    /\ core.pc = "read"
    /\ input' = Input_read(input, thread).input
    /\ core' = IF Input_read(input, thread).res = "Ok"
               THEN [core EXCEPT !.pc = "iterate"]
               ELSE [core EXCEPT !.pc = "exit", !.res = "Err"]
    /\ UNCHANGED channel
    /\ LoopOnly

\* Core::run: the for loop asks try_iter for the next event and finds none
CoreDrained ==
    /\ core.pc = "iterate"
    /\ channel = <<>>
    /\ core' = [core EXCEPT !.pc = "view"]
    /\ UNCHANGED <<channel, input>>
    /\ LoopOnly

\* Core::run: the for loop receives an event; one that is an Input is the
\* message of the while let that follows
CoreReceives ==
    /\ core.pc = "iterate"
    /\ channel # <<>>
    /\ channel' = Tail(channel)
    /\ core' = IF try_from(Head(channel).event) = None THEN core
               ELSE [core EXCEPT !.pc = "update", !.updated = TRUE, !.quit = FALSE,
                                 !.id = Head(channel).id,
                                 !.message = try_from(Head(channel).event).val]
    /\ UNCHANGED input
    /\ LoopOnly

\* Core::run: self.frame.update(&message)? and the body of the while let
CoreUpdate ==
    /\ core.pc = "update"
    /\ content' = Frame_update(TheWindow, core.message).window.content
    /\ picker' = Frame_update(TheWindow, core.message).window.picker
    /\ portal' = Frame_update(TheWindow, core.message).window.portal
    /\ file' = Frame_update(TheWindow, core.message).window.file
    /\ ret' = Frame_update(TheWindow, core.message).ret
    /\ core' = [dispatched(core, Frame_update(TheWindow, core.message).ret)
                   EXCEPT !.log = Append(@, [id |-> core.id,
                                             message |-> IF IsInput(core.message) THEN "Input"
                                                         ELSE IF IsOpen(core.message) THEN "Open"
                                                         ELSE "Quit"])]
    /\ UNCHANGED <<build, edits, trail, before, lineVars, listVars, thread, channel, input>>

\* Core::run: the frame is drawn if an event was handled since it was last drawn
CoreView ==
    /\ core.pc = "view"
    /\ core' = [core EXCEPT !.pc = "read", !.updated = FALSE,
                            !.log = IF core.updated
                                    THEN Append(@, [id |-> 0, message |-> "view"])
                                    ELSE @]
    /\ UNCHANGED <<channel, input>>
    /\ LoopOnly

NextRun ==
    \/ ThreadSend
    \/ ThreadReturns
    \/ ThreadFinishes
    \/ CoreRead
    \/ CoreDrained
    \/ CoreReceives
    \/ CoreUpdate
    \/ CoreView

SpecRun == Init /\ [][NextRun]_vars

-----------------------------------------------------------------------------
(* Input::read called again and again beside the input thread *)

\* the number of calls of Input::read so far
Reads == IF got = NoOp THEN 0 ELSE got.reads

\* everything but the input thread, the channel, the Cell and the last call
InputOnly ==
    UNCHANGED <<content, portal, file, build, edits, trail, before, lineVars,
                pickVars, list, slotlist, deque, thread, core>>

\* a call of Input::read, whatever the earlier calls returned
CallRead ==
    /\ Reads < MaxReads
    /\ input' = Input_read(input, thread).input
    /\ got' = [op |-> "read", reads |-> Reads + 1,
               res |-> Input_read(input, thread).res,
               finished |-> thread.pc = "finished",
               failed |-> input = None]
    /\ UNCHANGED channel
    /\ InputOnly

\* the iterator the last call returned yields the next event
CallNext ==
    /\ got # NoOp
    /\ got.res = "Ok"
    /\ channel # <<>>
    /\ channel' = Tail(channel)
    /\ UNCHANGED <<input, got>>
    /\ InputOnly

NextInput ==
    \/ ThreadSend
    \/ ThreadReturns
    \/ ThreadFinishes
    \/ CallRead
    \/ CallNext

SpecInput == Init /\ [][NextInput]_vars

-----------------------------------------------------------------------------
(* Browsing the directory tree and opening the files picked in it *)

\* Without overflow checks Up and Down in an empty directory send selected
\* past the entries, from either end of usize, without end; MaxWander bounds
\* how far the model follows it.
Followed(fp) ==
    \/ fp.selected <= Len(fp.entries) + MaxWander
    \/ fp.selected >= UsizeModulus - 1 - MaxWander

\* the run loop (core.rs) reads the next event once the last update returned
\* Ok(None): an error or a panic ended it, a returned message is fed back first
Picking ==
    /\ content = "FilePicker"
    /\ ret \in {NoReturn, Ok(None)}
    /\ Followed(picker)

\* Content::update, a key on a FilePicker: filepicker.update(message)
Pick(m) ==
    /\ picker' = FilePicker_update(picker, m).picker
    /\ ret' = FilePicker_update(picker, m).ret
    /\ trail' = <<>>
    /\ UNCHANGED <<content, portal, file, build, edits, before, lineVars, listVars, coreVars>>

PickUp == Picking /\ Pick(Pressed("Up", FALSE, FALSE))
PickDown == Picking /\ Pick(Pressed("Down", FALSE, FALSE))
PickEnter == Picking /\ Pick(Pressed("Enter", FALSE, FALSE))
PickEsc == Picking /\ Pick(Pressed("Esc", FALSE, FALSE))
PickOther == Picking /\ Pick(Pressed("Tab", FALSE, FALSE))

\* the FilePicker returned Message::Open(path), which the run loop feeds back
Awaited(path) == content = "FilePicker" /\ ret = OpenMessage(path)

\* Content::update, Message::Open on a FilePicker: Portal::open succeeded
OpenPicked ==
    \E path \in DOMAIN FileReads :
        /\ Awaited(path)
        /\ FileReads[path].res = "Ok"
        /\ content' = "Portal"
        /\ file' = FileReads[path].val
        /\ portal' = Portal_open(FileReads[path].val, PickHeight)
        /\ edits' = 0
        /\ trail' = <<>>
        /\ before' = NoPortal
        /\ picker' = NoPicker
        /\ ret' = Ok(None)
        /\ UNCHANGED <<build, lineVars, listVars, coreVars>>

\* Content::update, Message::Open on a FilePicker: Portal::open failed
OpenFailed ==
    \E path \in DOMAIN FileReads :
        /\ Awaited(path)
        /\ FileReads[path].res = "Err"
        /\ ret' = open_failed(FileReads[path])
        /\ trail' = <<"Open">>
        /\ UNCHANGED <<content, portal, file, build, edits, before, lineVars, listVars, coreVars, picker>>

NextOpen ==
    \/ PickUp
    \/ PickDown
    \/ PickEnter
    \/ PickEsc
    \/ PickOther
    \/ OpenPicked
    \/ OpenFailed
    \/ KeyUp
    \/ KeyDown
    \/ KeyLeft
    \/ KeyRight
    \/ KeyEnd
    \/ KeyChar
    \/ KeyEnter
    \/ KeyEsc

SpecOpen == Init /\ [][NextOpen]_vars

-----------------------------------------------------------------------------
(* Properties *)

\* the lines held in a reservoir string, in the order they were pushed:
\* each line follows its own newline
RECURSIVE BlockLines(_)
BlockLines(s) ==
    IF s = <<>> THEN <<>>
    ELSE LET pos == rfind(s)
         IN  IF pos = 0 THEN <<s>>
             ELSE BlockLines(Take(s, pos - 1)) \o <<Drop(s, pos)>>

RECURSIVE Reverse(_)
Reverse(s) == IF s = <<>> THEN <<>> ELSE Reverse(Tail(s)) \o <<Head(s)>>

\* `above` and `below` in file order: above grows at its end as lines leave
\* the top, below grows at its end as lines leave the bottom
AboveLines(p) == BlockLines(p.above)
BelowLines(p) == Reverse(BlockLines(p.below))

\* above ++ visible ++ below
FileText(p) == AboveLines(p) \o p.lines \o BelowLines(p)

\* a Portal is shown and its last update returned Ok
Running == content = "Portal" /\ portal.res = "Ok"

\* index is a genuine position of line: on a character boundary, with the
\* display column of the characters in front of it
Genuine(line, index) ==
    /\ IsCharBoundary(line, index.byte)
    /\ index.display = DisplayWidth(Take(line, CharsBefore(line, index.byte)))

Downs(n) == [i \in 1..n |-> "Down"]

-----------------------------------------------------------------------------
(* C1: under moving and scrolling, above ++ visible ++ below is the file *)

\* C1: whatever moving or scrolling events have been handled, the lines of
\* above, then the visible lines, then the lines of below are exactly the
\* lines of the file that was opened.
C1_PartitionIsFile == content = "Portal" => FileText(portal) = file

C1_Witness ==
    /\ Running
    /\ Len(AboveLines(portal)) >= 2
    /\ Len(BelowLines(portal)) >= 2
    /\ portal.recycle # <<>>
    /\ FileText(portal) = file

\* C2: after an event on a viewport with visible lines, active is an index
\* into visible.
C2_ActiveValid == (Running /\ portal.lines # <<>>) => portal.active < Len(portal.lines)

\* C3: Portal::update returns Ok in every state that opening a file and
\* handling events can reach.
C3_UpdateReturnsOk == content = "Portal" => portal.res = "Ok"

\* C4: the cursor corrected against the active line is a genuine position of
\* that line.
C4_CursorGenuine ==
    (Running /\ portal.active < Len(portal.lines)) =>
        Genuine(current_line(portal).val, correct_index(current_line(portal).val, portal.index))

\* C5: after every event visible holds at most height lines, and fewer only
\* when below is empty.
C5_WindowFull ==
    Running =>
        /\ Len(portal.lines) <= portal.height
        /\ Len(portal.lines) < portal.height => portal.below = <<>>

C5_Witness ==
    /\ Running
    /\ edits > 0
    /\ Len(file) > portal.height
    /\ Len(FileText(portal)) # Len(file)
    /\ Len(portal.lines) = portal.height

\* C6: offset is the number of lines held in above.
C6_OffsetCountsAbove == Running => portal.offset = Len(AboveLines(portal))

C6_Witness ==
    /\ Running
    /\ portal.offset >= 2
    /\ portal.recycle # <<>>
    /\ edits > 0

\* the state Portal::open leaves for the file f
Opened(p, f) ==
    LET n == Min(Len(f), p.height)
    IN  /\ p.lines = Take(f, n)
        /\ AboveLines(p) = <<>>
        /\ BelowLines(p) = Drop(f, n)
        /\ p.active = 0
        /\ p.offset = 0
        /\ current_line(p).res = "Ok" =>
               correct_index(current_line(p).val, p.index) = Index(0, 0)

\* C7: opening a file shows its first min(N, H) lines, keeps the rest in
\* below in file order, leaves above empty, and puts the cursor at the start
\* of row 0 with offset 0; a 10-line file in 5 rows shows lines 1-5 and holds
\* lines 6-10 below.
C7_OpenShowsTop ==
    [][(content = "FilePicker" /\ content' = "Portal") => Opened(portal', file')]_vars

C7_Witness ==
    /\ Running
    /\ Len(file) = 10
    /\ portal.height = 5
    /\ Opened(portal, file)
    /\ portal.lines = SubSeq(file, 1, 5)
    /\ BelowLines(portal) = SubSeq(file, 6, 10)

\* a 10-line file in a 5-row viewport, n Down keys after it was opened
AfterDowns(n) == Running /\ Len(file) = 10 /\ portal.height = 5 /\ trail = Downs(n)

\* rows first..first+4 of the file are visible, the lines before them are
\* above, the lines after them below
Window(first) ==
    /\ portal.lines = SubSeq(file, first, first + 4)
    /\ AboveLines(portal) = SubSeq(file, 1, first - 1)
    /\ BelowLines(portal) = SubSeq(file, first + 5, 10)
    /\ portal.offset = first - 1

\* C8 as stated: three Down keys leave active at 3 with no scroll, the fourth
\* scrolls once and lines 2-6 are visible.
C8_AsStated ==
    /\ AfterDowns(3) => (portal.active = 3 /\ Window(1))
    /\ AfterDowns(4) => Window(2)

\* C8: in a 10-line file shown in 5 rows, two Down keys move active to 2
\* with no scroll; the third and the fourth Down each scroll by one line and
\* leave active at 2, so that after four Down keys lines 3-7 are visible,
\* above holds lines 1-2, below holds lines 8-10 and offset is 2.
C8_ScrollsFromThirdDown ==
    /\ AfterDowns(2) => (portal.active = 2 /\ Window(1))
    /\ AfterDowns(3) => (portal.active = 2 /\ Window(2))
    /\ AfterDowns(4) => (portal.active = 2 /\ Window(3))

C8_Witness == AfterDowns(4) /\ portal.active = 2 /\ Window(3)

\* the step is a Down key on a full window with lines left in below
DownOnFullWindow ==
    /\ Running
    /\ trail' = Append(trail, "Down")
    /\ Len(portal.lines) = portal.height
    /\ portal.below # <<>>

\* the step scrolls down by exactly one line and leaves active where it was
OneScrollDown ==
    /\ portal'.res = "Ok"
    /\ portal'.active = portal.active
    /\ portal'.offset = portal.offset + 1
    /\ portal'.lines = Tail(portal.lines) \o <<Head(BelowLines(portal))>>
    /\ AboveLines(portal') = Append(AboveLines(portal), Head(portal.lines))
    /\ BelowLines(portal') = Tail(BelowLines(portal))

\* C9 as stated: a Down key pressed on row H - G - 1 of a full window, with
\* lines left in below, scrolls down by exactly one line and leaves active
\* where it was.
C9_ScrollAtGraceEdge ==
    [][(DownOnFullWindow /\ portal.active + 1 + SCROLL_GRACE = portal.height)
       => OneScrollDown]_vars

\* C9: with lines left in below, a Down key pressed on row H - G of a full
\* window scrolls down by exactly one line (offset grows by 1, the top line
\* goes to above, the next line of below comes in at the bottom) and leaves
\* active where it was; pressed on row H - G - 1 it moves the cursor to row
\* H - G and scrolls nothing.
C9_ScrollAtGraceRow ==
    [][/\ (DownOnFullWindow /\ portal.active + SCROLL_GRACE = portal.height)
          => OneScrollDown
       /\ (DownOnFullWindow /\ portal.active + 1 + SCROLL_GRACE = portal.height)
          => /\ portal'.res = "Ok"
             /\ portal'.active = portal.active + 1
             /\ portal'.offset = portal.offset
             /\ portal'.lines = portal.lines
             /\ portal'.above = portal.above
             /\ portal'.below = portal.below]_vars

C9_Witness ==
    /\ Running
    /\ portal.height = 4
    /\ trail = <<"Down", "Down">>
    /\ portal.active + SCROLL_GRACE = portal.height
    /\ portal.offset = 1
    /\ portal.lines = SubSeq(file, 2, 5)

\* C10: a Down key pressed on the last line of the file changes nothing:
\* no scroll, and above, visible, below, active and the cursor stay as they
\* were.
C10_DownAtLastLine ==
    [][(/\ Running
        /\ trail' = Append(trail, "Down")
        /\ portal.lines # <<>>
        /\ portal.below = <<>>
        /\ portal.active = Len(portal.lines) - 1)
       => portal' = portal]_vars

\* the position of a line with the greatest display column not exceeding d
Clamp(l, d) ==
    CHOOSE ix \in Positions(l) :
        /\ ix.display <= d
        /\ \A other \in Positions(l) : other.display <= d => other.display <= ix.display

\* C19: correct_index of an Invalid index returns the position of the line
\* with the greatest display column not exceeding the target column (the end
\* of the line when the target is at or past the line's width, the start when
\* the target is 0 or the line is empty).
C19_CorrectClamps ==
    (out.op = "correct_index" /\ arg.tag = "Invalid")
        => out.val = Clamp(subject, arg.display)

\* C20: on the line of a tab followed by "ab", correct_index of Invalid
\* column 5 returns byte 2, display 5.
C20_TabThenAb ==
    (out.op = "correct_index" /\ subject = <<Tab, "a", "b">> /\ arg = Invalid(5))
        => out.val = Index(5, 2)

C20_Witness ==
    /\ out.op = "correct_index"
    /\ subject = <<Tab, "a", "b">>
    /\ arg = Invalid(5)
    /\ out.val = Index(5, 2)

-----------------------------------------------------------------------------
(* C11-C18: one event, from the Portal it found to the Portal it left *)

\* the event recorded by SpecEdit was the key `name`, handled by a Portal
\* with an active line
Pressing(name) ==
    /\ content = "Portal"
    /\ trail = <<name>>
    /\ before.active < Len(before.lines)

\* the cursor of p resolved against p's active line
Cursor(p) == correct_index(current_line(p).val, p.index)

\* the number of the active line in the file, counted from 0
ActiveInFile(p) == Len(AboveLines(p)) + p.active

\* p's active line is the first line of the file and its cursor is at column 0
AtFileStart(p) ==
    /\ ActiveInFile(p) = 0
    /\ Cursor(p) = IndexDefault

\* p's active line is the last line of the file and its cursor is at its end
AtFileEnd(p) ==
    /\ ActiveInFile(p) = Len(FileText(p)) - 1
    /\ at_back(current_line(p).val, Cursor(p))

\* the event returned Ok and left text, active line, offset and cursor alone
Untouched ==
    /\ portal.res = "Ok"
    /\ FileText(portal) = FileText(before)
    /\ portal.active = before.active
    /\ portal.offset = before.offset
    /\ portal.active < Len(portal.lines)
    /\ Cursor(portal) = Cursor(before)

Replaced(text, a, by) == Take(text, a) \o by \o Drop(text, a + 1)

\* the halves of line l around the byte offset of index ix
Halves(l, ix) ==
    <<Take(l, CharsBefore(l, ix.byte)), Drop(l, CharsBefore(l, ix.byte))>>

\* C12: Enter at position p of the active line L replaces L in the file by
\* the two lines L[..p] and L[p..], every other line unchanged and in order;
\* afterwards the active line is the second half and the cursor is at
\* column 0.
C12_EnterSplits ==
    Pressing("Enter") =>
        /\ portal.res = "Ok"
        /\ FileText(portal) =
               Replaced(FileText(before), ActiveInFile(before),
                        Halves(current_line(before).val, Cursor(before)))
        /\ portal.active < Len(portal.lines)
        /\ ActiveInFile(portal) = ActiveInFile(before) + 1
        /\ Cursor(portal) = IndexDefault

\* line l with character c put in at the byte offset of index ix
WithChar(l, ix, c) ==
    Take(l, CharsBefore(l, ix.byte)) \o <<c>> \o Drop(l, CharsBefore(l, ix.byte))

\* the recorded event typed c at the cursor: c is in the active line at the
\* cursor's place, nothing else changed, and the cursor is one character on
TypedAtCursor(c) ==
    /\ portal.res = "Ok"
    /\ FileText(portal) =
           Replaced(FileText(before), ActiveInFile(before),
                    <<WithChar(current_line(before).val, Cursor(before), c)>>)
    /\ portal.active < Len(portal.lines)
    /\ ActiveInFile(portal) = ActiveInFile(before)
    /\ Cursor(portal) = Index(Cursor(before).display + char_width(c),
                              Cursor(before).byte + len_utf8(c))

\* C13: typing a character (or Tab) at position p of the active line inserts
\* it at p and leaves the cursor exactly one character further.
C13_TypingAdvances ==
    /\ Pressing("Char") => \E c \in TypedChars : TypedAtCursor(c)
    /\ Pressing("Tab") => TypedAtCursor(Tab)

\* the file with lines number a and a + 1 (from 0) replaced by their join
Joined(text, a) ==
    Take(text, a) \o <<text[a + 1] \o text[a + 2]>> \o Drop(text, a + 2)

\* C14: Backspace at column 0 of a line that has a previous line in the file,
\* visible or in above, replaces the two lines by previous + current and
\* leaves the other lines unchanged; only on the first line of the file does
\* it change nothing.
C14_BackspaceJoins ==
    (Pressing("Backspace") /\ Cursor(before) = IndexDefault) =>
        /\ portal.res = "Ok"
        /\ FileText(portal) =
               IF ActiveInFile(before) = 0 THEN FileText(before)
               ELSE Joined(FileText(before), ActiveInFile(before) - 1)

\* C15: Delete at the end of a line that has a next line in the file, visible
\* or in below, replaces the two lines by current + next and leaves the other
\* lines and the cursor position unchanged; only on the last line of the file
\* does it change nothing.
C15_DeleteJoins ==
    (Pressing("Delete") /\ at_back(current_line(before).val, Cursor(before))) =>
        /\ portal.res = "Ok"
        /\ FileText(portal) =
               IF ActiveInFile(before) = Len(FileText(before)) - 1 THEN FileText(before)
               ELSE Joined(FileText(before), ActiveInFile(before))
        /\ portal.active < Len(portal.lines)
        /\ ActiveInFile(portal) = ActiveInFile(before)
        /\ Cursor(portal) = Cursor(before)

\* line l without its k-th character (from 1)
WithoutChar(l, k) == Take(l, k - 1) \o Drop(l, k)

\* C16: Backspace at a position p > 0 of the active line removes exactly the
\* one character immediately before p, leaves everything else unchanged and
\* moves the cursor to where the removed character began.
C16_BackspaceRemovesBefore ==
    (Pressing("Backspace") /\ Cursor(before).byte > 0) =>
        LET l == current_line(before).val
            k == CharsBefore(l, Cursor(before).byte)
        IN  /\ portal.res = "Ok"
            /\ FileText(portal) =
                   Replaced(FileText(before), ActiveInFile(before), <<WithoutChar(l, k)>>)
            /\ portal.active < Len(portal.lines)
            /\ ActiveInFile(portal) = ActiveInFile(before)
            /\ Cursor(portal) = Index(Cursor(before).display - char_width(l[k]),
                                      Cursor(before).byte - len_utf8(l[k]))

\* the file with the lines of `by` put in after line number a (from 0)
InsertedAfter(text, a, by) == Take(text, a + 1) \o by \o Drop(text, a + 1)

\* C17: Ctrl+Enter adds exactly one empty line to the file, immediately
\* below the line that was active, and leaves the text of every line that
\* was there unchanged; also when the active line is the last of the file.
C17_CtrlEnterOpensBelow ==
    Pressing("Ctrl+Enter") =>
        /\ portal.res = "Ok"
        /\ FileText(portal) =
               InsertedAfter(FileText(before), ActiveInFile(before), <<<<>>>>)

\* the position after the last character of line l
EndOf(l) == Index(DisplayWidth(l), ByteLen(l))

\* C18: Left at column 0 of a line that has a previous line moves the cursor
\* onto the previous line, at its end; Right at the end of a line that has a
\* next line moves the cursor onto the next line, at column 0; neither
\* changes the text.
C18_LeftRightCrossLines ==
    /\ (Pressing("Left") /\ Cursor(before) = IndexDefault /\ ActiveInFile(before) > 0) =>
           /\ portal.res = "Ok"
           /\ FileText(portal) = FileText(before)
           /\ portal.active < Len(portal.lines)
           /\ ActiveInFile(portal) = ActiveInFile(before) - 1
           /\ Cursor(portal) = EndOf(current_line(portal).val)
    /\ (Pressing("Right") /\ at_back(current_line(before).val, Cursor(before))
           /\ ActiveInFile(before) < Len(FileText(before)) - 1) =>
           /\ portal.res = "Ok"
           /\ FileText(portal) = FileText(before)
           /\ portal.active < Len(portal.lines)
           /\ ActiveInFile(portal) = ActiveInFile(before) + 1
           /\ Cursor(portal) = IndexDefault

-----------------------------------------------------------------------------
(* C21-C27: Line's methods *)

\* the index given to the call is a position of the line
AtPosition == arg.tag = "Valid" /\ AsIndex(arg) \in Positions(subject)

\* C21: correcting the Valid form of a corrected index returns the same
\* index, whatever raw index was corrected first.
C21_CorrectIdempotent ==
    out.op = "correct_index again" => out.val.second = out.val.first

C21_Witness ==
    /\ out.op = "correct_index again"
    /\ out.val.second = out.val.first
    /\ arg.tag = "Invalid"
    /\ arg.display > DisplayWidth(subject)
    /\ \E i \in 1..Len(subject) : subject[i] = Tab

\* the four stepping methods
StepOps == {"index_forward", "index_backward", "index_forward_word", "index_backward_word"}

\* the call returned Ok(Some(index))
ReturnedSome == out.val.res = "Ok" /\ out.val.val # None

\* C22: an index returned by index_forward, index_backward,
\* index_forward_word or index_backward_word for a position of the line is
\* on a character boundary and its display column is the display width of
\* the content in front of its byte offset.
C22_StepsReturnPositions ==
    (out.op \in StepOps /\ AtPosition /\ ReturnedSome)
        => Genuine(subject, out.val.val.val)

C22_Witness ==
    /\ out.op = "index_backward_word"
    /\ AtPosition
    /\ ReturnedSome
    /\ Genuine(subject, out.val.val.val)
    /\ out.val.val.val # AsIndex(arg)
    /\ \E i \in 1..Len(subject) : subject[i] = Tab

\* C23: splitting a copy of a line at one of its positions and appending the
\* suffix returned to the prefix left gives the line's content again.
C23_SplitAppendInverse ==
    (out.op = "split_at, append" /\ AtPosition) => out.val = Ok(subject)

C23_Witness ==
    /\ out.op = "split_at, append"
    /\ AtPosition
    /\ 0 < arg.byte /\ arg.byte < ByteLen(subject)
    /\ out.val = Ok(subject)

\* the number of characters in front of the index given to the call
ArgChars == CharsBefore(subject, arg.byte)

\* the position one character after / before the index given to the call
OneForward ==
    Index(arg.display + char_width(subject[ArgChars + 1]),
          arg.byte + len_utf8(subject[ArgChars + 1]))
OneBackward ==
    Index(arg.display - char_width(subject[ArgChars]),
          arg.byte - len_utf8(subject[ArgChars]))

\* C24: index_forward returns the position exactly one character after p,
\* and None iff p is the end of the line; index_backward returns the position
\* exactly one character before p, and None iff p is the start of the line.
C24_StepsMoveOneCharacter ==
    /\ (out.op = "index_forward" /\ AtPosition) =>
           out.val = IF ArgChars = Len(subject) THEN Ok(None) ELSE Ok(Some(OneForward))
    /\ (out.op = "index_backward" /\ AtPosition) =>
           out.val = IF ArgChars = 0 THEN Ok(None) ELSE Ok(Some(OneBackward))

\* C25: index_back returns the position one past the last character of the
\* line: byte offset the line's byte length, display the line's display
\* width (so that at_back holds of it).
C25_BackIsPastLastCharacter ==
    (out.op = "index_back" /\ (arg.tag = "Invalid" \/ AtPosition))
        => out.val = Ok(EndOf(subject))

\* the position of line l with k characters in front of it
PositionAt(l, k) == Index(DisplayWidth(Take(l, k)), ByteLen(Take(l, k)))

\* the character counts of line l at which an alphanumeric run meets a
\* non-alphanumeric run
RunBoundaries(l) ==
    {k \in 1..(Len(l) - 1) : is_alphanumeric(l[k]) # is_alphanumeric(l[k + 1])}

\* the boundary word-forward is to reach from k characters in, else the end
WordAhead(l, k) ==
    LET ahead == {b \in RunBoundaries(l) : b > k}
    IN  IF ahead = {} THEN Len(l) ELSE CHOOSE b \in ahead : \A c \in ahead : b <= c

\* the boundary word-backward is to reach from k characters in, else the start
WordBehind(l, k) ==
    LET behind == {b \in RunBoundaries(l) : b < k}
    IN  IF behind = {} THEN 0 ELSE CHOOSE b \in behind : \A c \in behind : b >= c

\* C26: index_forward_word returns the next position after p at a boundary
\* between an alphanumeric and a non-alphanumeric run, or the end of the line
\* if none lies ahead, and None iff p is the end of the line;
\* index_backward_word mirrors this toward the start of the line.  A
\* position returned differs from p.
C26_WordStepsReachBoundaries ==
    /\ (out.op = "index_forward_word" /\ AtPosition) =>
           out.val = IF ArgChars = Len(subject) THEN Ok(None)
                     ELSE Ok(Some(PositionAt(subject, WordAhead(subject, ArgChars))))
    /\ (out.op = "index_backward_word" /\ AtPosition) =>
           out.val = IF ArgChars = 0 THEN Ok(None)
                     ELSE Ok(Some(PositionAt(subject, WordBehind(subject, ArgChars))))

\* the methods of Line that return a Result or can panic
FallibleOps ==
    StepOps \cup {"index_back", "split_at, append", "insert", "remove"}

\* the index given to the call has a byte offset past the line's length
PastTheEnd == arg.tag = "Valid" /\ arg.byte > ByteLen(subject)

\* C27: a method of Line given an index whose byte offset exceeds the line's
\* byte length completes normally: it returns no error and does not panic.
C27_PastTheEndIsNoError ==
    (out.op \in FallibleOps /\ PastTheEnd) => out.val.res = "Ok"

-----------------------------------------------------------------------------
(* C28-C30 *)

\* self.lines.len() - SCROLL_GRACE, the first thing cursor_down computes,
\* underflows
cursor_down_underflows(p) == Len(p.lines) < SCROLL_GRACE

\* C28: in no state the viewport reaches does handling a key event perform
\* an unsigned subtraction that underflows; a Down key can be handled in
\* every such state, and cursor_down subtracts SCROLL_GRACE from the number
\* of visible lines.
C28_NoUnderflow == Running => ~cursor_down_underflows(portal)

\* ten to the power k
RECURSIVE Pow10(_)
Pow10(k) == IF k = 0 THEN 1 ELSE 10 * Pow10(k - 1)

\* C29: the gutter width never decreases across a key or scroll event, and
\* when offset reaches 10^k, k in 3..7, the gutter width is at least k + 1
\* (and so stays at least k + 1 from then on): the width after an event is
\* at least what the match in scroll_down gives for every offset the event
\* passed, and the match gives k + 1 at 10^k.
C29_GutterOnlyGrows ==
    [][(content = "Portal" /\ content' = "Portal") =>
          /\ portal'.line_num_width >= portal.line_num_width
          /\ \A o \in (portal.offset + 1)..portal'.offset :
                 portal'.line_num_width >= new_line_num_width(o)
          /\ \A k \in 3..7 :
                 /\ new_line_num_width(Pow10(k)) >= k + 1
                 /\ portal'.offset = Pow10(k) => portal'.line_num_width >= k + 1]_vars

C29_Witness ==
    /\ Running
    /\ Len(file) < 1000
    /\ portal.line_num_width = 4
    /\ portal.offset < 1000

\* C30: a Message::Open whose file is not valid text (io::ErrorKind
\* InvalidData) leaves the content the FilePicker with its entries, selected
\* and history as they were, and the update returns Ok(None); one that fails
\* with any other io::Error returns that error to the caller; one that
\* succeeds makes the content a Portal on that file.
C30_OpenOutcomes ==
    [][\A path \in DOMAIN FileReads :
          Awaited(path) =>
              IF FileReads[path].res = "Ok"
              THEN /\ content' = "Portal"
                   /\ FileText(portal') = FileReads[path].val
                   /\ file' = FileReads[path].val
              ELSE IF FileReads[path].kind = "InvalidData"
              THEN /\ content' = "FilePicker"
                   /\ picker' = picker
                   /\ ret' = Ok(None)
              ELSE ret' = FileReads[path]]_vars

\* the update of Message::Open on the file that is not UTF-8 has returned
C30_Witness ==
    /\ content = "FilePicker"
    /\ trail = <<"Open">>
    /\ ret = Ok(None)
    /\ picker.entries[picker.selected + 1].path = "image.bin"
    /\ picker.history = <<"cwd">>

-----------------------------------------------------------------------------
(* C34-C40 *)

\* C40: in every reachable FilePicker state Up, Down and Enter complete
\* without panic or arithmetic underflow and leave selected an index into
\* entries (0 when there are none), for directories of any number of
\* entries, none included.
C40_PickerStaysInRange ==
    content = "FilePicker" =>
        /\ ret # Panic
        /\ IF picker.entries = <<>> THEN picker.selected = 0
           ELSE picker.selected < Len(picker.entries)

\* a step of the Portal that is the update for the unmodified key given
KeyStep(name) == Running /\ portal' = update(portal, Pressed(name, FALSE, FALSE))

\* the rows where cursor_down scrolls rather than moves: the grace limit
\* len - SCROLL_GRACE and, below it, the bottom grace zone
BottomLimit(p) == Len(p.lines) - SCROLL_GRACE

\* the row where cursor_up scrolls rather than moves: above it, the top grace zone
TopLimit == SCROLL_GRACE

\* exactly one line went from below into the window and one from it into above
ScrolledDownOne ==
    /\ portal'.offset = portal.offset + 1
    /\ Len(AboveLines(portal')) = Len(AboveLines(portal)) + 1
    /\ Len(BelowLines(portal')) = Len(BelowLines(portal)) - 1
    /\ FileText(portal') = FileText(portal)

\* exactly one line went from above into the window and one from it into below
ScrolledUpOne ==
    /\ portal'.offset = portal.offset - 1
    /\ Len(AboveLines(portal')) = Len(AboveLines(portal)) - 1
    /\ Len(BelowLines(portal')) = Len(BelowLines(portal)) + 1
    /\ FileText(portal') = FileText(portal)

\* C34: a Down key moves active to a row inside the bottom grace zone only
\* when below is empty, and an Up key moves active to a row inside the top
\* grace zone only when above is empty; at the grace limit with the
\* reservoir non-empty the key scrolls by exactly one line and leaves
\* active where it was.
C34_GraceScrollsFirst ==
    [][/\ KeyStep("Down") =>
             /\ (portal'.active # portal.active /\ portal'.active > BottomLimit(portal))
                    => portal.below = <<>>
             /\ (portal.active = BottomLimit(portal) /\ portal.below # <<>>)
                    => (ScrolledDownOne /\ portal'.active = portal.active)
       /\ KeyStep("Up") =>
             /\ (portal'.active # portal.active /\ portal'.active < TopLimit)
                    => portal.above = <<>>
             /\ (portal.active = TopLimit /\ portal.above # <<>>)
                    => (ScrolledUpOne /\ portal'.active = portal.active)]_vars

\* C35: after an Up or Down key that changes which line of the file is
\* active, by moving active or by scrolling one line, the cursor is
\* Invalid{display: d}, d the cursor's display column before the key; no
\* byte position is carried to the new line.
C35_VerticalMoveInvalidates ==
    [][((KeyStep("Up") \/ KeyStep("Down")) /\ ActiveInFile(portal') # ActiveInFile(portal))
          => portal'.index = Invalid(portal.index.display)]_vars

\* a vertical move has left the cursor Invalid at a column past the first,
\* in a window that has scrolled
C35_Witness ==
    /\ Running
    /\ portal.index.tag = "Invalid"
    /\ portal.index.display > 0
    /\ portal.offset > 0
    /\ portal.active > 0

\* recycle pools a Portal could hold: none, and one with a line of stale text
Pools == {<<>>, << <<"o", "l", "d">> >>, << <<>>, <<"o", "l", "d">> >>}

\* the text a Portal holds: above, the window, below
Shown(p) == <<p.above, p.lines, p.below>>

\* the Portal with another recycle pool
Pooled(p, pool) == [p EXCEPT !.recycle = pool]

\* C36: a Line put into the window from above or below, freshly allocated
\* or taken from the recycle pool, holds exactly the text of the one line
\* removed from that reservoir and nothing of its earlier use; above, the
\* window and below after a scroll do not depend on what the pool held.
C36_RecycledLinesAreClean ==
    Running =>
        \A pool \in Pools \cup {portal.recycle} :
            /\ portal.below # <<>> =>
                  /\ take_from_below(Pooled(portal, pool)).ret = Some(Head(BelowLines(portal)))
                  /\ BelowLines(take_from_below(Pooled(portal, pool)).p)
                         = Tail(BelowLines(portal))
            /\ portal.above # <<>> =>
                  /\ take_from_above(Pooled(portal, pool)).ret
                         = Some(AboveLines(portal)[Len(AboveLines(portal))])
                  /\ AboveLines(take_from_above(Pooled(portal, pool)).p)
                         = Take(AboveLines(portal), Len(AboveLines(portal)) - 1)
            /\ Shown(scroll_down(Pooled(portal, pool)).p) = Shown(scroll_down(portal).p)
            /\ Shown(scroll_up(Pooled(portal, pool)).p) = Shown(scroll_up(portal).p)

\* a window that has scrolled both ways, its pool holding a line with text
\* of its earlier use, and lines left to take on both sides
C36_Witness ==
    /\ Running
    /\ portal.recycle # <<>>
    /\ portal.recycle[Len(portal.recycle)] # <<>>
    /\ portal.above # <<>>
    /\ portal.below # <<>>

\* a step of the Portal that is the update for the key given with Ctrl held
CtrlKeyStep(name) == Running /\ portal' = update(portal, Pressed(name, FALSE, TRUE))

\* C37: Ctrl+Home and Ctrl+End always terminate: Ctrl+Home ends with above
\* empty, offset 0, active 0 and the cursor at the line's start; Ctrl+End
\* ends with below empty and active on the last row of the window, the last
\* line of the file; neither changes the text of the file.
C37_JumpsReachTheEnds ==
    [][/\ CtrlKeyStep("Home") =>
             /\ portal'.res = "Ok"
             /\ portal'.above = <<>>
             /\ portal'.offset = 0
             /\ portal'.active = 0
             /\ portal'.index = index_front
             /\ FileText(portal') = FileText(portal)
       /\ CtrlKeyStep("End") =>
             /\ portal'.res = "Ok"
             /\ portal'.below = <<>>
             /\ portal'.active = Len(portal'.lines) - 1
             /\ FileText(portal') = FileText(portal)]_vars

-----------------------------------------------------------------------------
(* C32, C33: List and SlotList *)

\* C32: for every sequence of push_front, push_back, pop_front and pop_back
\* on a List that starts empty, each pop returns what a reference
\* double-ended queue returns (None when empty), len and is_empty agree with
\* the reference, and no operation panics or indexes out of bounds, pushes
\* after the list was emptied by pops included.
C32_ListIsADeque ==
    /\ list.res = "Ok"
    /\ got.op \in {"push_back", "push_front", "pop_back", "pop_front"} =>
          /\ got.val = got.want
          /\ got.len = Len(deque)
          /\ got.is_empty = (deque = <<>>)

\* C33: iterating a SlotList by reference yields every element exactly once
\* from front to back and, reversed, every element exactly once from back to
\* front, for lists of every length, one included; so its Debug output and
\* its equality cover all elements.
C33_IterYieldsAll ==
    got.op = "iter" =>
        /\ got.val = deque
        /\ got.rev = Reverse(deque)
        /\ got.debug = deque
        /\ got.eq = (got.other = deque)


(* C38, C31, C39: the run loop and the input thread *)

\* the message of the update that is about to run is Ctrl+C or Ctrl+X
QuitKey(m) == IsInput(m) /\ m.key = "Char" /\ m.c \in {"c", "x"} /\ m.ctrl

\* the number of updates the log records for the event id
Updates(log, id) == Cardinality({i \in DOMAIN log : log[i].id = id})

\* C38, first part: the update of a Ctrl+C or Ctrl+X changes no field of the
\* window, returns Quit, and the loop goes on to exactly one more update, after
\* which it exits; the update of a returned message returns no further one
QuitStep ==
    /\ (core.pc = "update" /\ QuitKey(core.message) /\ core' # core) =>
           /\ UNCHANGED <<content, picker, portal, file>>
           /\ ret' = Ok(Some(Quit))
           /\ core'.pc = "update" /\ core'.quit /\ core'.message = Quit
    /\ (core.pc = "update" /\ core.quit /\ core' # core) =>
           /\ core'.pc = "exit"
           /\ UNCHANGED <<content, picker, portal, file>>
    /\ (core.pc = "update" /\ Updates(core.log, core.id) >= 1 /\ core' # core) =>
           core'.pc # "update"

\* C38, second part: no event is dispatched more than twice, and an Input
\* returned from update would end the loop with an error
DispatchBounded ==
    /\ \A id \in 1..MaxEvents : Updates(core.log, id) <= 2
    /\ \A m \in {Pressed("Down", FALSE, FALSE), Typed("c", FALSE, TRUE)} :
           /\ dispatched(core, Ok(Some(m))).pc = "exit"
           /\ dispatched(core, Ok(Some(m))).res = "Err"

\* C38: Ctrl+C and Ctrl+X are not forwarded to the window, yield Quit and end
\* the run loop after one further update; the dispatch loop of every event
\* terminates, after two updates at most; an Input returned from update is an
\* error
C38_QuitAndDispatch ==
    /\ [][QuitStep]_vars
    /\ []DispatchBounded

\* the loop has exited on a Ctrl+C typed in a Portal after an earlier key
C38_Witness ==
    /\ core.pc = "exit"
    /\ core.quit
    /\ core.res = "Ok"
    /\ content = "Portal"
    /\ Len(core.log) >= 4
    /\ core.log[Len(core.log)].message = "Quit"
    /\ core.log[Len(core.log) - 1].message = "Input"


\* the positions of the log at which the update of an Input is recorded
Applied(log) == {i \in DOMAIN log : log[i].message = "Input"}

\* C31: the events are applied in the order in which the input thread read
\* them and each at most once; the updates of the messages an event's update
\* returned follow it at once, before the next event's update and before any
\* rendering; and an event that is being dispatched is not in the channel
C31_OneEventAtATime ==
    /\ \A i, j \in Applied(core.log) : i < j => core.log[i].id < core.log[j].id
    /\ \A i \in DOMAIN core.log :
           core.log[i].message \in {"Open", "Quit"} =>
               /\ i > 1
               /\ core.log[i - 1].id = core.log[i].id
               /\ core.log[i - 1].message = "Input"
    /\ core.pc = "update" =>
           /\ \A i \in DOMAIN channel : channel[i].id > core.id
           /\ \A i \in DOMAIN core.log : core.log[i].id <= core.id
    /\ core.pc = "view" => core.message = None \/ Updates(core.log, core.id) >= 1

\* an event was applied with the message its update returned, then the event
\* the input thread had sent meanwhile, and only then was the frame drawn
C31_Witness ==
    \E i \in DOMAIN core.log :
        /\ i >= 2
        /\ i + 2 <= Len(core.log)
        /\ core.log[i - 1].message = "Input"
        /\ core.log[i].message = "Open"
        /\ core.log[i + 1].message = "Input"
        /\ core.log[i + 2].message = "view"


\* C39: a finished input thread stays finished; a call of read made once the
\* thread has finished, or after a call that failed, fails and leaves the Cell
\* empty; and once a call has failed no event leaves the channel again
ReadStep ==
    /\ thread.pc = "finished" => thread'.pc = "finished"
    /\ (got' # got /\ (thread.pc = "finished" \/ input = None)) =>
           /\ got'.res = "Err"
           /\ input' = None
    /\ input = None => (input' = None /\ Len(channel') >= Len(channel))

C39_ReadFailsForGood == [][ReadStep]_vars

\* the thread finished with events still in the channel; the read that
\* followed failed, and so did the two after it
C39_Witness ==
    /\ got # NoOp
    /\ got.reads = 3
    /\ got.res = "Err"
    /\ got.failed
    /\ got.finished
    /\ channel # <<>>

=============================================================================
